---- MODULE Spec2Model ----
(***************************************************************************)
(* Agentic MentorLoop (TypeScript): the agent loop of cli.ts, the Brain    *)
(* router with its deterministic and backend-delegated providers, and the  *)
(* tools EngagementPulse, MentorTips / TipsRAG and ComposeNudge.           *)
(*                                                                         *)
(* Strings are TLA+ strings; TLC evaluates Len, SubSeq and \o on them, so  *)
(* includes / startsWith / toLowerCase / the \b regex are computed on the  *)
(* characters, as the code computes them.                                   *)
(***************************************************************************)
EXTENDS Integers, Sequences, FiniteSets, TLC

VARIABLES
    pc,         \* position of the process: see each specification
    args,       \* parsed command line + environment (cli.ts main, lines 20-85)
    files,      \* the data directory read by the tools
    now,        \* the clock read by new Date(), in ticks
    req,        \* the provider's HTTP request: state and handlers run so far
    genPromise, \* the promise returned by OpenAIProvider/OllamaProvider.generate
    decision,   \* what Brain.think (or decide) gave: Return(decision) or Throw(message)
    result,     \* cli.ts AgentResult {thought, action, observation, reflection}
    stdout,     \* values written by console.log, in order
    exitCode,   \* process exit code, -1 while running
    trace       \* history: tool calls made and branch taken, in order

vars == <<pc, args, files, now, req, genPromise, decision, result, stdout, exitCode, trace>>

(***************************************************************************)
(* String helpers (JavaScript String.prototype semantics).                 *)
(***************************************************************************)
Char(s, i) == SubSeq(s, i, i)

\* sub occurs in s at position i (1-based)
MatchesAt(s, i, sub) == i + Len(sub) - 1 <= Len(s) /\ SubSeq(s, i, i + Len(sub) - 1) = sub

Includes(s, sub) == \E i \in 1..(Len(s) - Len(sub) + 1) : MatchesAt(s, i, sub)

StartsWith(s, pre) == Len(s) >= Len(pre) /\ SubSeq(s, 1, Len(pre)) = pre

Substring(s, from) == SubSeq(s, from + 1, Len(s))

UpperChars == "ABCDEFGHIJKLMNOPQRSTUVWXYZ"
LowerChars == "abcdefghijklmnopqrstuvwxyz"
DigitChars == "0123456789"

CharSet(s) == {Char(s, i) : i \in 1..Len(s)}

UpperSet == CharSet(UpperChars)
DigitSet == CharSet(DigitChars)

WordCharSet == UpperSet \cup CharSet(LowerChars) \cup DigitSet \cup {"_"}

IsWordChar(c) == c \in WordCharSet

LowerOf(c) ==
    IF c \in UpperSet
    THEN Char(LowerChars, CHOOSE i \in 1..Len(UpperChars) : Char(UpperChars, i) = c)
    ELSE c

RECURSIVE ToLowerCase(_)
ToLowerCase(s) ==
    IF s = "" THEN "" ELSE LowerOf(Char(s, 1)) \o ToLowerCase(SubSeq(s, 2, Len(s)))

\* /\bword\b/i at some position of s: the word, with no word character on either side
WordAt(s, w, i) ==
    /\ i + Len(w) - 1 <= Len(s)
    /\ ToLowerCase(SubSeq(s, i, i + Len(w) - 1)) = w
    /\ (i = 1 \/ ~IsWordChar(Char(s, i - 1)))
    /\ (i + Len(w) - 1 = Len(s) \/ ~IsWordChar(Char(s, i + Len(w))))

ListWords == {"which", "who", "list", "show"}

ListPatternTestBySubstring(s) == \E w \in ListWords : Includes(ToLowerCase(s), w)

\* /\b(which|who|list|show)\b/i.test(s)
ListPatternTest(s) ==
    \E w \in ListWords : \E i \in 1..(Len(s) - Len(w) + 1) : WordAt(s, w, i)

(***************************************************************************)
(* DeterministicBrain.decide                                               *)
(***************************************************************************)
NoMode == "undefined"
NoPrompt == [undefined |-> TRUE]

InferMode(prompt) == IF ListPatternTest(prompt) THEN "list" ELSE "summary"

PulseDecision(prompt) ==
    LET mode == InferMode(prompt)
    IN  [action |-> "USE:engagement_pulse:" \o mode, mode |-> mode, prompt |-> [str |-> prompt]]

ActionOnly(action) == [action |-> action, mode |-> NoMode, prompt |-> NoPrompt]

DefaultRespond(prompt) ==
    "RESPOND:I understand you're asking about \"" \o prompt \o "\". Let me help with that."

DebugRespond == "RESPOND:Debug mode - all systems operational"

DecideEchoFirst(prompt) ==
    LET lowerPrompt == ToLowerCase(prompt)
    IN  IF Includes(lowerPrompt, "echo") THEN ActionOnly("USE:echo")
        ELSE IF Includes(lowerPrompt, "engagement") \/ Includes(lowerPrompt, "pulse")
                \/ Includes(lowerPrompt, "checkin")
        THEN PulseDecision(prompt)
        ELSE IF Includes(lowerPrompt, "dormant") \/ Includes(lowerPrompt, "inactive")
        THEN IF Includes(lowerPrompt, "tip") \/ Includes(lowerPrompt, "advice")
             THEN ActionOnly("USE:mentor_tips")
             ELSE PulseDecision(prompt)
        ELSE IF Includes(lowerPrompt, "one sided") \/ Includes(lowerPrompt, "one-sided")
                \/ Includes(lowerPrompt, "imbalance")
        THEN ActionOnly("USE:mentor_tips")
        ELSE IF Includes(lowerPrompt, "tip") \/ Includes(lowerPrompt, "advice")
                \/ Includes(lowerPrompt, "suggestion")
        THEN ActionOnly("USE:mentor_tips")
        ELSE IF Includes(lowerPrompt, "debug") THEN ActionOnly(DebugRespond)
        ELSE ActionOnly(DefaultRespond(prompt))

Decide(prompt) ==
    LET lowerPrompt == ToLowerCase(prompt)
    IN  IF Includes(lowerPrompt, "engagement") \/ Includes(lowerPrompt, "pulse")
           \/ Includes(lowerPrompt, "checkin")
        THEN PulseDecision(prompt)
        ELSE IF Includes(lowerPrompt, "dormant") \/ Includes(lowerPrompt, "inactive")
        THEN IF Includes(lowerPrompt, "tip") \/ Includes(lowerPrompt, "advice")
             THEN ActionOnly("USE:mentor_tips")
             ELSE PulseDecision(prompt)
        ELSE IF Includes(lowerPrompt, "one sided") \/ Includes(lowerPrompt, "one-sided")
                \/ Includes(lowerPrompt, "imbalance")
        THEN ActionOnly("USE:mentor_tips")
        ELSE IF Includes(lowerPrompt, "tip") \/ Includes(lowerPrompt, "advice")
                \/ Includes(lowerPrompt, "suggestion")
        THEN ActionOnly("USE:mentor_tips")
        ELSE IF Includes(lowerPrompt, "echo") THEN ActionOnly("USE:echo")
        ELSE IF Includes(lowerPrompt, "debug") THEN ActionOnly(DebugRespond)
        ELSE ActionOnly(DefaultRespond(prompt))

(***************************************************************************)
(* The data directory.  files.missing names the files readFileSync cannot  *)
(* read; a loader of such a file throws.                                   *)
(***************************************************************************)
Throw(message) == [threw |-> TRUE, message |-> message]
Return(value) == [threw |-> FALSE, value |-> value]

Enoent(name) == "ENOENT: no such file or directory, open " \o name

\* the first loader, in call order, that throws; "" when every load succeeds
RECURSIVE FirstMissing(_, _)
FirstMissing(f, order) ==
    IF order = <<>> THEN ""
    ELSE IF Head(order) \in f.missing THEN Head(order)
    ELSE FirstMissing(f, Tail(order))

ErrorResult(message, hint) == [type |-> "error", message |-> message, hint |-> hint]

(***************************************************************************)
(* EngagementPulse.run                                                     *)
(***************************************************************************)
TicksPerDay == 2        \* model clock: one tick is half a day (1000*60*60*24 ms / 2)
DormantDays == 14
RecentWindow == 50
DefaultLimit == 5

DaysSince(t, timestamp) == (t - timestamp) \div TicksPerDay

IndexOfPair(stats, pairId) ==
    IF \E i \in 1..Len(stats) : stats[i].pairId = pairId
    THEN CHOOSE i \in 1..Len(stats) : stats[i].pairId = pairId
    ELSE 0

\* checkins.forEach keeping, per pair, the check-in that comes last in the file
RECURSIVE AnalyseCheckinsLastRecord(_, _, _)
AnalyseCheckinsLastRecord(checkins, t, stats) ==
    IF checkins = <<>> THEN stats
    ELSE LET checkin == Head(checkins)
             i == IndexOfPair(stats, checkin.pair_id)
             entry == [pairId |-> checkin.pair_id, lastCheckin |-> checkin.timestamp,
                       balance |-> "balanced", daysSince |-> DaysSince(t, checkin.timestamp)]
         IN  IF i = 0
             THEN AnalyseCheckinsLastRecord(Tail(checkins), t, Append(stats, entry))
             ELSE AnalyseCheckinsLastRecord(Tail(checkins), t, [stats EXCEPT ![i] = entry])

\* checkins.forEach: keep, per pair, the check-in with the greatest timestamp;
\* a Map keeps the position of a key's first insertion
RECURSIVE AnalyseCheckins(_, _, _)
AnalyseCheckins(checkins, t, stats) ==
    IF checkins = <<>> THEN stats
    ELSE LET checkin == Head(checkins)
             i == IndexOfPair(stats, checkin.pair_id)
             entry == [pairId |-> checkin.pair_id, lastCheckin |-> checkin.timestamp,
                       balance |-> "balanced", daysSince |-> DaysSince(t, checkin.timestamp)]
         IN  IF i = 0
             THEN AnalyseCheckins(Tail(checkins), t, Append(stats, entry))
             ELSE IF checkin.timestamp > stats[i].lastCheckin
             THEN AnalyseCheckins(Tail(checkins), t, [stats EXCEPT ![i] = entry])
             ELSE AnalyseCheckins(Tail(checkins), t, stats)

Slice(seq, from, to) ==
    LET n == Len(seq)
        lo == IF from < 0 THEN (IF n + from < 0 THEN 0 ELSE n + from) ELSE (IF from > n THEN n ELSE from)
        hi == IF to < 0 THEN (IF n + to < 0 THEN 0 ELSE n + to) ELSE (IF to > n THEN n ELSE to)
    IN  SubSeq(seq, lo + 1, hi)

SliceLast(seq, k) == Slice(seq, 0 - k, Len(seq))

PairMessages(messages, pairId) == SelectSeq(messages, LAMBDA m : m.pair_id = pairId)

CountRole(msgs, role) == Len(SelectSeq(msgs, LAMBDA m : m.author_role = role))

\* the balance over all messages of the pair, not only the recent ones
BalanceOfAll(msgs) ==
    LET mentorCount == CountRole(msgs, "mentor")
        menteeCount == CountRole(msgs, "mentee")
    IN  IF 2 * mentorCount > 3 * menteeCount THEN "mentor_heavy"
        ELSE IF 2 * menteeCount > 3 * mentorCount THEN "mentee_heavy"
        ELSE "balanced"

\* mentorCount > menteeCount * 1.5, on integers
BalanceOf(msgs) ==
    LET recentMessages == SliceLast(msgs, RecentWindow)
        mentorCount == CountRole(recentMessages, "mentor")
        menteeCount == CountRole(recentMessages, "mentee")
    IN  IF 2 * mentorCount > 3 * menteeCount THEN "mentor_heavy"
        ELSE IF 2 * menteeCount > 3 * mentorCount THEN "mentee_heavy"
        ELSE "balanced"

\* pairMessages.forEach: only pairs that have messages and a pairStats entry
AnalyseMessages(messages, stats) ==
    [i \in 1..Len(stats) |->
        IF PairMessages(messages, stats[i].pairId) = <<>> THEN stats[i]
        ELSE [stats[i] EXCEPT !.balance = BalanceOf(PairMessages(messages, stats[i].pairId))]]

IsDormantAtLeast(s) == s.daysSince >= DormantDays

IsDormant(s) == s.daysSince > DormantDays

DormantPairs(stats) == SelectSeq(stats, IsDormant)

\* Array.prototype.sort((a, b) => b.daysSince - a.daysSince): stable, descending
RECURSIVE InsertDesc(_, _)
InsertDesc(sorted, x) ==
    IF sorted = <<>> THEN <<x>>
    ELSE IF Head(sorted).daysSince >= x.daysSince
    THEN <<Head(sorted)>> \o InsertDesc(Tail(sorted), x)
    ELSE <<x>> \o sorted

RECURSIVE SortByDaysDesc(_)
SortByDaysDesc(seq) ==
    IF seq = <<>> THEN <<>>
    ELSE InsertDesc(SortByDaysDesc(SubSeq(seq, 1, Len(seq) - 1)), seq[Len(seq)])

Find(seq, Test(_)) ==
    IF \E i \in 1..Len(seq) : Test(seq[i])
    THEN <<seq[CHOOSE i \in 1..Len(seq) : Test(seq[i]) /\ \A j \in 1..(i - 1) : ~Test(seq[j])]>>
    ELSE <<>>

\* the entry when the missing pairing is not tested for: pairing.mentee_id of undefined
MenteeEntryUnchecked(f, d) ==
    LET pairing == Find(f.pairings, LAMBDA p : p.pair_id = d.pairId)
        mentee == IF pairing = <<>> THEN <<>>
                  ELSE Find(f.users, LAMBDA u : u.user_id = pairing[1].mentee_id)
    IN  [mentee_id |-> IF pairing = <<>> THEN "undefined" ELSE pairing[1].mentee_id,
         first_name |-> IF mentee = <<>> \/ mentee[1].first_name = ""
                        THEN "Unknown" ELSE mentee[1].first_name,
         pair_id |-> d.pairId, last_checkin_days |-> d.daysSince]

MenteeEntry(f, d) ==
    LET pairing == Find(f.pairings, LAMBDA p : p.pair_id = d.pairId)
    IN  IF pairing = <<>>
        THEN [mentee_id |-> "unknown", first_name |-> "Unknown",
              pair_id |-> d.pairId, last_checkin_days |-> d.daysSince]
        ELSE LET mentee == Find(f.users, LAMBDA u : u.user_id = pairing[1].mentee_id)
             IN  [mentee_id |-> pairing[1].mentee_id,
                  first_name |-> IF mentee = <<>> \/ mentee[1].first_name = ""
                                 THEN "Unknown" ELSE mentee[1].first_name,
                  pair_id |-> d.pairId, last_checkin_days |-> d.daysSince]

RECURSIVE MaxDays(_, _)
MaxDays(stats, maxDays) ==
    IF stats = <<>> THEN maxDays
    ELSE MaxDays(Tail(stats), IF Head(stats).daysSince > maxDays THEN Head(stats).daysSince ELSE maxDays)

CountBalance(stats, b) == Len(SelectSeq(stats, LAMBDA s : s.balance = b))

OverallBalanceAtLeastHalf(stats) ==
    IF 2 * CountBalance(stats, "mentor_heavy") >= Len(stats) THEN "mentor_heavy"
    ELSE IF 2 * CountBalance(stats, "mentee_heavy") >= Len(stats) THEN "mentee_heavy"
    ELSE "balanced"

OverallBalance(stats) ==
    IF 2 * CountBalance(stats, "mentor_heavy") > Len(stats) THEN "mentor_heavy"
    ELSE IF 2 * CountBalance(stats, "mentee_heavy") > Len(stats) THEN "mentee_heavy"
    ELSE "balanced"

PairStats(f, t) == AnalyseMessages(f.messages, AnalyseCheckins(f.checkins, t, <<>>))

SummaryOfMinDays(stats) ==
    [type |-> "summary", sample |-> Len(stats), dormant |-> Len(DormantPairs(stats)),
     balance |-> OverallBalance(stats),
     last_checkin_days |-> IF stats = <<>> THEN 0 ELSE stats[1].daysSince]

SummaryOf(stats) ==
    [type |-> "summary", sample |-> Len(stats), dormant |-> Len(DormantPairs(stats)),
     balance |-> OverallBalance(stats), last_checkin_days |-> MaxDays(stats, 0)]

ListOf(f, stats, limit) ==
    LET dormantPairs == SortByDaysDesc(DormantPairs(stats))
        shown == Slice(dormantPairs, 0, limit)
    IN  [type |-> "list", dormant_count |-> Len(dormantPairs),
         mentees |-> [i \in 1..Len(shown) |-> MenteeEntry(f, shown[i])]]

PulseHint == "Check that data files exist and are properly formatted"

PulseLoadOrder == <<"checkins.csv", "messages.csv", "users.csv", "pairings.csv">>

\* options: mode is "summary", "list" or NoMode (absent); limit an integer, 0 when absent
EngagementPulseRun(f, t, optMode, optLimit) ==
    LET mode == IF optMode = NoMode \/ optMode = "" THEN "summary" ELSE optMode
        limit == IF optLimit = 0 THEN DefaultLimit ELSE optLimit
        failed == FirstMissing(f, PulseLoadOrder)
    IN  IF failed # "" THEN ErrorResult(Enoent(failed), PulseHint)
        ELSE IF mode = "list" THEN ListOf(f, PairStats(f, t), limit)
        ELSE SummaryOf(PairStats(f, t))

(***************************************************************************)
(* TipsRAG.vectorise: tokenisation                                         *)
(***************************************************************************)
IsSpace(c) == c = " "

\* text.toLowerCase().replace(/[^\w\s]/g, ' ')
RECURSIVE CleanText(_)
CleanText(text) ==
    IF text = "" THEN ""
    ELSE LET c == LowerOf(Char(text, 1))
         IN  (IF IsWordChar(c) \/ IsSpace(c) THEN c ELSE " ") \o CleanText(SubSeq(text, 2, Len(text)))

\* cleanText.split(/\s+/).filter(w => w.length > 0)
RECURSIVE SplitSpaces(_, _)
SplitSpaces(text, word) ==
    IF text = "" THEN (IF word = "" THEN <<>> ELSE <<word>>)
    ELSE IF IsSpace(Char(text, 1))
    THEN (IF word = "" THEN <<>> ELSE <<word>>) \o SplitSpaces(SubSeq(text, 2, Len(text)), "")
    ELSE SplitSpaces(SubSeq(text, 2, Len(text)), word \o Char(text, 1))

WordsOf(text) == SplitSpaces(CleanText(text), "")

StopWords ==
    {"a", "an", "and", "are", "as", "at", "be", "by", "for", "from",
     "has", "he", "in", "is", "it", "its", "of", "on", "that", "the",
     "to", "was", "will", "with", "this", "your", "you", "our"}

Unigrams(words) == SelectSeq(words, LAMBDA w : Len(w) > 2 /\ w \notin StopWords)

\* bigrams of the words that also pass the length test of the unigrams
RECURSIVE BigramsOfLongWords(_)
BigramsOfLongWords(words) ==
    IF Len(words) < 2 THEN <<>>
    ELSE (IF words[1] \notin StopWords /\ words[2] \notin StopWords
             /\ Len(words[1]) > 2 /\ Len(words[2]) > 2
          THEN <<words[1] \o "_" \o words[2]>> ELSE <<>>) \o BigramsOfLongWords(Tail(words))

RECURSIVE Bigrams(_)
Bigrams(words) ==
    IF Len(words) < 2 THEN <<>>
    ELSE (IF words[1] \notin StopWords /\ words[2] \notin StopWords
          THEN <<words[1] \o "_" \o words[2]>> ELSE <<>>) \o Bigrams(Tail(words))

Features(text) == Unigrams(WordsOf(text)) \o Bigrams(WordsOf(text))

\* the Map<string, number>: feature |-> number of times it was counted
Vectorise(text) ==
    LET feats == Features(text)
    IN  [k \in {feats[i] : i \in 1..Len(feats)} |->
            Cardinality({i \in 1..Len(feats) : feats[i] = k})]

Get(vec, word) == IF word \in DOMAIN vec THEN vec[word] ELSE 0

\* the sum over S of a[w] * b[w], absent keys counting 0
RECURSIVE SumProducts(_, _, _)
SumProducts(S, a, b) ==
    IF S = {} THEN 0
    ELSE LET w == CHOOSE y \in S : TRUE
         IN  Get(a, w) * Get(b, w) + SumProducts(S \ {w}, a, b)

(***************************************************************************)
(* TipsRAG.cosineSimilarity.  A score is the real number num / sqrt(den2), *)
(* kept exact: [num |-> dotProduct, den2 |-> norm1 * norm2], and 0 is      *)
(* [num |-> 0, den2 |-> 1].  Where the real number is 1 (parallel vectors) *)
(* the IEEE-754 double the code computes need not be 1: excess is its      *)
(* distance from 1 in units of 2^-53.                                      *)
(***************************************************************************)
ZeroScore == [num |-> 0, den2 |-> 1, excess |-> 0]

\* (fl(sqrt(norm1 * norm2) / (fl(sqrt norm1) * fl(sqrt norm2))) - 1) * 2^53 in
\* round-to-nearest double arithmetic, for norm1 * norm2 a perfect square and
\* norms up to 12:  2 / (1.4142135623730951 * 1.4142135623730951) is
\* 0.9999999999999998, 3 / (1.7320508075688772 * 1.7320508075688772) is
\* 1.0000000000000002
ParallelExcess(norm1, norm2) ==
    CASE <<norm1, norm2>> \in {<<1, 1>>, <<1, 4>>, <<1, 9>>, <<4, 1>>, <<4, 4>>, <<4, 9>>,
                               <<9, 1>>, <<9, 4>>, <<9, 9>>, <<11, 11>>} -> 0
      [] <<norm1, norm2>> \in {<<2, 2>>, <<2, 8>>, <<5, 5>>, <<8, 2>>, <<8, 8>>, <<10, 10>>} -> -2
      [] <<norm1, norm2>> \in {<<7, 7>>} -> -1
      [] <<norm1, norm2>> \in {<<3, 3>>, <<3, 12>>, <<6, 6>>, <<12, 3>>, <<12, 12>>} -> 2

CosineSimilarity(vec1, vec2) ==
    LET allWords == DOMAIN vec1 \cup DOMAIN vec2
        dotProduct == SumProducts(allWords, vec1, vec2)
        norm1 == SumProducts(allWords, vec1, vec1)
        norm2 == SumProducts(allWords, vec2, vec2)
    IN  IF norm1 = 0 \/ norm2 = 0 THEN ZeroScore
        ELSE [num |-> dotProduct, den2 |-> norm1 * norm2,
              excess |-> IF dotProduct * dotProduct = norm1 * norm2
                         THEN ParallelExcess(norm1, norm2) ELSE 0]

\* a.score >= b.score, scores being non-negative
ScoreGeq(a, b) ==
    \/ a.num * a.num * b.den2 > b.num * b.num * a.den2
    \/ a.num * a.num * b.den2 = b.num * b.num * a.den2 /\ a.excess >= b.excess

ScorePositive(a) == a.num > 0

\* scores.sort((a, b) => b.score - a.score): stable, descending
RECURSIVE InsertByScore(_, _)
InsertByScore(sorted, x) ==
    IF sorted = <<>> THEN <<x>>
    ELSE IF ScoreGeq(Head(sorted).score, x.score)
    THEN <<Head(sorted)>> \o InsertByScore(Tail(sorted), x)
    ELSE <<x>> \o sorted

RECURSIVE SortByScoreDesc(_)
SortByScoreDesc(seq) ==
    IF seq = <<>> THEN <<>>
    ELSE InsertByScore(SortByScoreDesc(SubSeq(seq, 1, Len(seq) - 1)), seq[Len(seq)])

\* findSimilar without its sort: the first topK documents in corpus order
FindSimilarUnsorted(query, documents, topK) ==
    LET queryVector == Vectorise(query)
        scores == [i \in 1..Len(documents) |->
                     [id |-> documents[i].id,
                      score |-> CosineSimilarity(queryVector, Vectorise(documents[i].text)),
                      text |-> documents[i].text, tags |-> documents[i].tags]]
    IN  Slice(scores, 0, topK)

FindSimilar(query, documents, topK) ==
    LET queryVector == Vectorise(query)
        scores == [i \in 1..Len(documents) |->
                     [id |-> documents[i].id,
                      score |-> CosineSimilarity(queryVector, Vectorise(documents[i].text)),
                      text |-> documents[i].text, tags |-> documents[i].tags]]
    IN  Slice(SortByScoreDesc(scores), 0, topK)

(***************************************************************************)
(* MentorTips.retrieve                                                     *)
(***************************************************************************)
TopK == 2

\* situation.split(/[,_\s]+/).filter(t => t.length > 0)
RECURSIVE SplitTags(_, _)
SplitTags(text, word) ==
    IF text = "" THEN (IF word = "" THEN <<>> ELSE <<word>>)
    ELSE IF Char(text, 1) \in {",", "_", " "}
    THEN (IF word = "" THEN <<>> ELSE <<word>>) \o SplitTags(SubSeq(text, 2, Len(text)), "")
    ELSE SplitTags(SubSeq(text, 2, Len(text)), word \o Char(text, 1))

\* parseFloat(score.toFixed(2)), in hundredths: the integer nearest to 100 * score
Hundredths(score) ==
    CHOOSE k \in 0..100 :
        /\ k = 0 \/ (2 * k - 1) * (2 * k - 1) * score.den2 <= 200 * score.num * 200 * score.num
        /\ 200 * score.num * 200 * score.num < (2 * k + 1) * (2 * k + 1) * score.den2

TipsHint == "Check that tips.json exists and is properly formatted"

\* tips.map(tip => ({id, text: `${tip.situation} ${tip.text}`, tags}))
TipDocuments(tips) ==
    [i \in 1..Len(tips) |->
        [id |-> tips[i].tip_id,
         text |-> tips[i].situation \o " " \o tips[i].text,
         tags |-> SplitTags(tips[i].situation, "")]]

\* hits[i].score is in hundredths
MentorTipsRetrieve(f, query) ==
    IF "tips.json" \in f.missing THEN ErrorResult(Enoent("tips.json"), TipsHint)
    ELSE LET documents == TipDocuments(f.tips)
             results == FindSimilar(query, documents, TopK)
         IN  [type |-> "tips",
              hits |-> [i \in 1..Len(results) |->
                          [id |-> results[i].id,
                           score |-> Hundredths(results[i].score),
                           text |-> Find(f.tips, LAMBDA t : t.tip_id = results[i].id)[1].text,
                           tags |-> results[i].tags]]]

(***************************************************************************)
(* ComposeNudge.compose                                                    *)
(***************************************************************************)
IsDigit(c) == c \in DigitSet

DigitValue(c) == (CHOOSE i \in 1..Len(DigitChars) : Char(DigitChars, i) = c) - 1

RECURSIVE DigitRun(_)
DigitRun(s) ==
    IF s = "" \/ ~IsDigit(Char(s, 1)) THEN "" ELSE Char(s, 1) \o DigitRun(SubSeq(s, 2, Len(s)))

RECURSIVE ParseDigits(_, _)
ParseDigits(s, acc) ==
    IF s = "" THEN acc ELSE ParseDigits(SubSeq(s, 2, Len(s)), 10 * acc + DigitValue(Char(s, 1)))

IndexOf(s, sub) ==
    IF Includes(s, sub)
    THEN CHOOSE i \in 1..Len(s) :
            /\ MatchesAt(s, i, sub)
            /\ \A j \in 1..(i - 1) : ~MatchesAt(s, j, sub)
    ELSE 0

DefaultCheckinDays == 14

\* engagementData.match(/last_checkin_days=(\d+)/): the leftmost key followed by a digit
LastCheckinDays(engagementData) ==
    LET key == "last_checkin_days="
        starts == {i \in 1..Len(engagementData) :
                      /\ MatchesAt(engagementData, i, key)
                      /\ DigitRun(SubSeq(engagementData, i + Len(key), Len(engagementData))) # ""}
    IN  IF starts = {} THEN DefaultCheckinDays
        ELSE LET i == CHOOSE m \in starts : \A x \in starts : m <= x
             IN  ParseDigits(DigitRun(SubSeq(engagementData, i + Len(key), Len(engagementData))), 0)

RECURSIVE TrimStart(_)
TrimStart(s) == IF s # "" /\ Char(s, 1) \in {" ", "\n", "\t"} THEN TrimStart(SubSeq(s, 2, Len(s))) ELSE s

RECURSIVE TrimEnd(_)
TrimEnd(s) ==
    IF s # "" /\ Char(s, Len(s)) \in {" ", "\n", "\t"} THEN TrimEnd(SubSeq(s, 1, Len(s) - 1)) ELSE s

Trim(s) == TrimEnd(TrimStart(s))

\* the longest prefix of s without "|"
UpToBar(s) ==
    IF Includes(s, "|") THEN SubSeq(s, 1, IndexOf(s, "|") - 1) ELSE s

DefaultTipText == "Stay connected with your mentor"

\* tips.match(/\) ([^|]+)/): the leftmost ") " followed by a character other than "|"
TipText(tips) ==
    LET starts == {i \in 1..Len(tips) :
                      MatchesAt(tips, i, ") ") /\ UpToBar(SubSeq(tips, i + 2, Len(tips))) # ""}
    IN  IF starts = {} THEN DefaultTipText
        ELSE LET i == CHOOSE m \in starts : \A x \in starts : m <= x
             IN  Trim(UpToBar(SubSeq(tips, i + 2, Len(tips))))

SuggestedQuestions ==
    << "What's one win from this week you'd like to share?",
       "What challenge could benefit from another perspective?",
       "How are you progressing on your current goals?",
       "What's one thing you'd like feedback on?" >>

ComposeLoadOrder == <<"users.csv", "pairings.csv", "programmes.json">>

NoPairingFound == "Error: No pairing found"
\* lastCheckinDays >= programme.cadence_days
IsOverdueAtCadence(lastCheckinDays, programme) == lastCheckinDays >= programme.cadence_days

\* const isOverdue = lastCheckinDays > programme.cadence_days
IsOverdue(lastCheckinDays, programme) == lastCheckinDays > programme.cadence_days

MissingNudgeDataUnprefixed == "Missing data for nudge composition"

MissingNudgeData == "Error: Missing data for nudge composition"

\* randomPair, randomQuestion: Math.floor(Math.random() * length), 0-based
ComposeNudgeCompose(f, engagementData, tips, pairId, randomPair, randomQuestion) ==
    LET lastCheckinDays == LastCheckinDays(engagementData)
        failed == FirstMissing(f, ComposeLoadOrder)
        targetPair == IF pairId # "" THEN Find(f.pairings, LAMBDA p : p.pair_id = pairId)
                      ELSE IF randomPair + 1 \in 1..Len(f.pairings) THEN <<f.pairings[randomPair + 1]>>
                      ELSE <<>>
    IN  IF failed # "" THEN Throw(Enoent(failed))
        ELSE IF targetPair = <<>> THEN Return(NoPairingFound)
        ELSE LET mentee == Find(f.users, LAMBDA u : u.user_id = targetPair[1].mentee_id)
                 mentor == Find(f.users, LAMBDA u : u.user_id = targetPair[1].mentor_id)
                 programme == Find(f.programmes, LAMBDA p : p.programme_id = targetPair[1].programme_id)
             IN  IF mentee = <<>> \/ mentor = <<>> \/ programme = <<>> THEN Return(MissingNudgeData)
                 ELSE LET tipText == TipText(tips)
                          isOverdue == IsOverdue(lastCheckinDays, programme[1])
                          question == SuggestedQuestions[randomQuestion + 1]
                          body == IF isOverdue
                                  THEN "Hi " \o mentee[1].first_name \o ", noticed it has been "
                                       \o ToString(lastCheckinDays) \o " days since your last check-in. "
                                       \o tipText \o " Here's a gentle prompt you can use with "
                                       \o mentor[1].first_name \o ": \"" \o question \o "\""
                                  ELSE "Hi " \o mentee[1].first_name
                                       \o ", great to see you're staying connected! Here's a conversation starter for your next session with "
                                       \o mentor[1].first_name \o ": \"" \o question \o "\""
                      IN  Return("To: " \o mentee[1].first_name \o "\n"
                                 \o "Subject: Checking in on your " \o programme[1].name \o " progress\n"
                                 \o "Body: " \o body)

(***************************************************************************)
(* Fixture data directory (the shape of examples/data)                     *)
(***************************************************************************)
FixtureUsers ==
    << [user_id |-> "u001", role |-> "mentee", first_name |-> "Priya"],
       [user_id |-> "m001", role |-> "mentor", first_name |-> "Sarah"],
       [user_id |-> "u002", role |-> "mentee", first_name |-> "Tom"],
       [user_id |-> "m002", role |-> "mentor", first_name |-> "Lee"] >>

FixturePairings ==
    << [pair_id |-> "p001", mentor_id |-> "m001", mentee_id |-> "u001", programme_id |-> "prog001"],
       [pair_id |-> "p002", mentor_id |-> "m002", mentee_id |-> "u002", programme_id |-> "prog002"] >>

FixtureProgrammes ==
    << [programme_id |-> "prog001", name |-> "Kickstart", cadence_days |-> 7],
       [programme_id |-> "prog002", name |-> "Leadership", cadence_days |-> 30] >>

FixtureTips ==
    << [tip_id |-> "t001", situation |-> "dormant_mentee", text |-> "Send a short check-in note."],
       [tip_id |-> "t002", situation |-> "one_sided", text |-> "Ask open questions."] >>

CheckIn(pairId, timestamp) == [pair_id |-> pairId, timestamp |-> timestamp]
Message(pairId, role) == [pair_id |-> pairId, author_role |-> role]

BaseFiles ==
    [missing |-> {}, checkins |-> <<>>, messages |-> <<>>, users |-> FixtureUsers,
     pairings |-> FixturePairings, programmes |-> FixtureProgrammes, tips |-> FixtureTips]

(***************************************************************************)
(* Idle values of the parts of the state a specification does not use      *)
(***************************************************************************)
Null == [null |-> TRUE]
Str(s) == [str |-> s]
IsStr(v) == "str" \in DOMAIN v

NoDecision == [threw |-> FALSE, value |-> [action |-> "", mode |-> NoMode, prompt |-> NoPrompt]]
NoResult == [thought |-> "", action |-> "", observation |-> Null, reflection |-> ""]
IdleReq == [state |-> "none", sent |-> 0, handled |-> <<>>, body |-> Null]
IdlePromise == [state |-> "none"]
NoTrace == [calls |-> <<>>, caught |-> FALSE]
BaseArgs ==
    [prompt |-> "", provider |-> "deterministic", apiKey |-> FALSE, pairId |-> "",
     limit |-> DefaultLimit, jsonOnly |-> FALSE, compose |-> FALSE]

(***************************************************************************)
(* OpenAIProvider.generate / OllamaProvider.generate.  A response body is  *)
(* what JSON.parse makes of it: json is "invalid" (SyntaxError, the empty  *)
(* body included), "null", or "object" with an error field (error # ""),   *)
(* and with or without the content string.                                 *)
(***************************************************************************)
Body(json, error, hasContent, content) ==
    [json |-> json, error |-> error, hasContent |-> hasContent, content |-> content]

Resolved(value) == [state |-> "resolved", value |-> value]
Rejected(message) == [state |-> "rejected", message |-> message]
Pending == [state |-> "pending"]

\* a promise that every resolve/reject call would settle again
SettleAgain(promise, outcome) == outcome

\* resolve/reject on a promise that is already settled changes nothing
Settle(promise, outcome) == IF promise.state = "pending" THEN outcome ELSE promise

ContentDecision(content, lastMessage) ==
    IF Includes(content, "USE:engagement_pulse")
    THEN [action |-> content,
          mode |-> IF Includes(content, ":list") THEN "list"
                   ELSE IF Includes(content, ":summary") THEN "summary"
                   ELSE InferMode(lastMessage),
          prompt |-> Str(lastMessage)]
    ELSE ActionOnly(content)

NoModelResponse == "RESPOND:No response from model"

\* res.on('end') of OpenAIProvider.generate
OpenAIOnEnd(body, lastMessage) ==
    IF body.json = "invalid"
    THEN Rejected("Failed to parse OpenAI response: SyntaxError: Unexpected end of JSON input")
    ELSE IF body.json = "null"
    THEN Rejected("Failed to parse OpenAI response: TypeError: Cannot read properties of null")
    ELSE IF body.error # "" THEN Rejected("OpenAI API error: " \o body.error)
    ELSE IF ~body.hasContent
    THEN Rejected("Failed to parse OpenAI response: TypeError: Cannot read properties of undefined")
    ELSE Resolved(ContentDecision(Trim(body.content), lastMessage))

\* res.on('end') of OllamaProvider.generate
OllamaOnEnd(body, lastMessage) ==
    IF body.json = "invalid"
    THEN Rejected("Failed to parse Ollama response: SyntaxError: Unexpected end of JSON input")
    ELSE IF body.json = "null"
    THEN Rejected("Failed to parse Ollama response: TypeError: Cannot read properties of null")
    ELSE IF body.error # "" THEN Rejected("Ollama API error: " \o body.error)
    ELSE LET content == IF body.hasContent /\ Trim(body.content) # ""
                        THEN Trim(body.content) ELSE NoModelResponse
         IN  Resolved(ContentDecision(content, lastMessage))

ProviderName(provider) == IF provider = "openai" THEN "OpenAI" ELSE "Ollama"

OnEnd(provider, body, lastMessage) ==
    IF provider = "openai" THEN OpenAIOnEnd(body, lastMessage) ELSE OllamaOnEnd(body, lastMessage)

OnError(provider, message) == Rejected(ProviderName(provider) \o " request failed: " \o message)

OnTimeout(provider) == Rejected(ProviderName(provider) \o " request timed out")

(***************************************************************************)
(* Brain.think                                                             *)
(***************************************************************************)
\* config.provider || 'deterministic', then the switch of think
UsesBackend(a) == (a.provider = "openai" /\ a.apiKey) \/ a.provider = "ollama"

\* the catch of think: an exception or rejection becomes a RESPOND:Error: decision
ThinkCatch(outcome) ==
    IF outcome.threw THEN Return(ActionOnly("RESPOND:Error: " \o outcome.message)) ELSE outcome

\* think when no request is made: a missing API key throws before generate
ThinkSync(a) ==
    IF a.provider = "openai" THEN ThinkCatch(Throw("OpenAI API key is required"))
    ELSE ThinkCatch(Return(Decide(a.prompt)))

\* think resuming from await generate(...)
ThinkAwait(promise) ==
    IF promise.state = "rejected" THEN ThinkCatch(Throw(promise.message))
    ELSE ThinkCatch(Return(promise.value))

(***************************************************************************)
(* cli.ts main: act and reflect                                            *)
(***************************************************************************)
\* text.split(sep) for a one-character separator: the pieces between its occurrences
SplitOn(text, sep) ==
    LET at == {i \in 1..Len(text) : Char(text, i) = sep}
        nth(k) == CHOOSE i \in at : Cardinality({j \in at : j < i}) = k - 1
    IN  [k \in 1..(Cardinality(at) + 1) |->
            SubSeq(text, IF k = 1 THEN 1 ELSE nth(k - 1) + 1,
                         IF k = Cardinality(at) + 1 THEN Len(text) ELSE nth(k) - 1)]

ReplaceFirst(s, pat, rep) ==
    LET i == IndexOf(s, pat)
    IN  IF i = 0 THEN s ELSE SubSeq(s, 1, i - 1) \o rep \o SubSeq(s, i + Len(pat), Len(s))

\* String(h.score) of a score kept in hundredths
ScoreText(k) ==
    IF k = 100 THEN "1"
    ELSE IF k = 0 THEN "0"
    ELSE IF k % 10 = 0 THEN "0." \o ToString(k \div 10)
    ELSE IF k < 10 THEN "0.0" \o ToString(k)
    ELSE "0." \o ToString(k)

RECURSIVE Join(_, _)
Join(parts, sep) ==
    IF parts = <<>> THEN ""
    ELSE IF Len(parts) = 1 THEN parts[1]
    ELSE parts[1] \o sep \o Join(Tail(parts), sep)

\* hits.slice(0, 2).map(h => `(${h.id} ${h.score}) ${h.text}`).join(' | ')
FormatTips(hits) ==
    LET top == Slice(hits, 0, 2)
    IN  Join([i \in 1..Len(top) |->
                "(" \o top[i].id \o " " \o ScoreText(top[i].score) \o ") " \o top[i].text], " | ")

NoEngagementData == "sample=0 dormant=0 balance=balanced last_checkin_days=0"

\* the fixed zero summary whatever the analytics returned
EngagementTextNoData(r) == NoEngagementData

EngagementText(r) ==
    IF r.type = "summary"
    THEN "sample=" \o ToString(r.sample) \o " dormant=" \o ToString(r.dormant)
         \o " balance=" \o r.balance \o " last_checkin_days=" \o ToString(r.last_checkin_days)
    ELSE NoEngagementData

\* the composer's text taken whole, without looking for its Subject: and Body: lines
NudgeResultWhole(nudgeText) == [type |-> "nudge", subject |-> "Mentorship update", body |-> nudgeText]

NudgeResult(nudgeText) ==
    LET lines == SplitOn(nudgeText, "\n")
        subjectLine == Find(lines, LAMBDA l : StartsWith(l, "Subject:"))
        bodyLines == SelectSeq(lines, LAMBDA l : StartsWith(l, "Body:"))
    IN  [type |-> "nudge",
         subject |-> IF subjectLine # <<>> /\ subjectLine[1] # ""
                     THEN ReplaceFirst(subjectLine[1], "Subject: ", "") ELSE "Mentorship update",
         body |-> IF Len(bodyLines) > 0 THEN ReplaceFirst(bodyLines[1], "Body: ", "") ELSE nudgeText]

ReflectLooksOk(toolResult) == "looks ok"

Reflect(toolResult) == IF toolResult.type = "error" THEN "needs improvement" ELSE "looks ok"

Call(tool, outcome) ==
    [tool |-> tool, threw |-> outcome.threw,
     result |-> IF outcome.threw THEN Str(outcome.message) ELSE outcome.value]

\* what the try block of main leaves behind: thrown out of it or run to its end,
\* with the tool calls made on the way
Thrown(message, calls) == [threw |-> TRUE, message |-> message, calls |-> calls]
Ran(observation, reflection, calls) ==
    [threw |-> FALSE, observation |-> observation, reflection |-> reflection, calls |-> calls]

UsePulse(a, f, t, toolMode) ==
    LET pulseResult == EngagementPulseRun(f, t, toolMode, a.limit)
    IN  Ran(pulseResult, Reflect(pulseResult), <<Call("engagement_pulse", Return(pulseResult))>>)

\* const x = e: the value is computed once, and the rest of the block reads it
Const(e, Rest(_)) == CHOOSE r \in {Rest(x) : x \in {e}} : TRUE

\* the same three calls with the retrieval made before the analytics
ComposeCallsTipsFirst(engagementDataObj, tipsDataObj, composed) ==
    <<Call("mentor_tips", Return(tipsDataObj)),
      Call("engagement_pulse", Return(engagementDataObj)),
      Call("compose_nudge", IF composed.threw THEN composed ELSE Return(Str(composed.value)))>>

ComposeCalls(engagementDataObj, tipsDataObj, composed) ==
    <<Call("engagement_pulse", Return(engagementDataObj)),
      Call("mentor_tips", Return(tipsDataObj)),
      Call("compose_nudge", IF composed.threw THEN composed ELSE Return(Str(composed.value)))>>

\* lines 132-169: mentor_tips, and with --compose the nudge composed from its hits
UseMentorTips(a, f, t, randomPair, randomQuestion) ==
    Const(MentorTipsRetrieve(f, a.prompt), LAMBDA tipsResult :
      IF a.compose /\ tipsResult.type = "tips" /\ Len(tipsResult.hits) > 0
      THEN Const(EngagementPulseRun(f, t, "summary", 0), LAMBDA engagementDataObj :
           Const(EngagementText(engagementDataObj), LAMBDA engagementDataStr :
           Const(FormatTips(tipsResult.hits), LAMBDA tipsDataStr :
           Const(ComposeNudgeCompose(f, engagementDataStr, tipsDataStr, a.pairId,
                                     randomPair, randomQuestion), LAMBDA composed :
             IF composed.threw
             THEN Thrown(composed.message,
                         <<Call("mentor_tips", Return(tipsResult)),
                           Call("engagement_pulse", Return(engagementDataObj)),
                           Call("compose_nudge", composed)>>)
             ELSE Const(composed.value, LAMBDA nudgeText :
                  Ran([tips |-> tipsResult, nudge |-> NudgeResult(nudgeText)],
                      Reflect(tipsResult),
                      <<Call("mentor_tips", Return(tipsResult)),
                        Call("engagement_pulse", Return(engagementDataObj)),
                        Call("compose_nudge", Return(Str(nudgeText)))>>))))))
      ELSE Ran(tipsResult, Reflect(tipsResult), <<Call("mentor_tips", Return(tipsResult))>>))

NoTipsFound == "No relevant tips found"

\* lines 171-191: compose_nudge called directly
UseComposeNudge(a, f, t, randomPair, randomQuestion) ==
    Const(EngagementPulseRun(f, t, "summary", 0), LAMBDA engagementDataObj :
    Const(MentorTipsRetrieve(f, a.prompt), LAMBDA tipsDataObj :
    Const(EngagementText(engagementDataObj), LAMBDA engagementDataStr :
    Const(IF tipsDataObj.type = "tips" /\ Len(tipsDataObj.hits) > 0
          THEN FormatTips(tipsDataObj.hits) ELSE NoTipsFound, LAMBDA tipsDataStr :
    Const(ComposeNudgeCompose(f, engagementDataStr, tipsDataStr, a.pairId,
                              randomPair, randomQuestion), LAMBDA composed :
      IF composed.threw
      THEN Thrown(composed.message, ComposeCalls(engagementDataObj, tipsDataObj, composed))
      ELSE Ran(Str(composed.value), "looks ok",
               ComposeCalls(engagementDataObj, tipsDataObj, composed)))))))

UseEcho(prompt) == Ran(Str("Echo: " \o prompt), "looks ok", <<>>)

\* Act with a default branch that throws instead of reporting the unknown tool
ActThrowOnUnknown(dec, a, f, t, randomPair, randomQuestion) ==
    IF StartsWith(dec.action, "USE:")
    THEN LET toolParts == SplitOn(Substring(dec.action, 4), ":")
             tool == toolParts[1]
             toolMode == IF Len(toolParts) >= 2 /\ toolParts[2] # "" THEN toolParts[2] ELSE dec.mode
         IN  CASE tool = "engagement_pulse" -> UsePulse(a, f, t, toolMode)
               [] tool = "mentor_tips" -> UseMentorTips(a, f, t, randomPair, randomQuestion)
               [] tool = "compose_nudge" -> UseComposeNudge(a, f, t, randomPair, randomQuestion)
               [] tool = "echo" -> UseEcho(a.prompt)
               [] OTHER -> Thrown("Unknown tool: " \o tool, <<>>)
    ELSE IF StartsWith(dec.action, "RESPOND:")
    THEN Ran(Str(Substring(dec.action, 8)), "looks ok", <<>>)
    ELSE Ran(Str(dec.action), "looks ok", <<>>)

\* lines 112-208 of main, from a decision to the observation and reflection
Act(dec, a, f, t, randomPair, randomQuestion) ==
    IF StartsWith(dec.action, "USE:")
    THEN LET toolParts == SplitOn(Substring(dec.action, 4), ":")
             tool == toolParts[1]
             toolMode == IF Len(toolParts) >= 2 /\ toolParts[2] # "" THEN toolParts[2] ELSE dec.mode
         IN  CASE tool = "engagement_pulse" -> UsePulse(a, f, t, toolMode)
               [] tool = "mentor_tips" -> UseMentorTips(a, f, t, randomPair, randomQuestion)
               [] tool = "compose_nudge" -> UseComposeNudge(a, f, t, randomPair, randomQuestion)
               [] tool = "echo" -> UseEcho(a.prompt)
               [] OTHER -> Ran(Str("Unknown tool: " \o tool), "needs improvement", <<>>)
    ELSE IF StartsWith(dec.action, "RESPOND:")
    THEN Ran(Str(Substring(dec.action, 8)), "looks ok", <<>>)
    ELSE Ran(Str(dec.action), "looks ok", <<>>)

Thought(prompt) == "Processing: \"" \o prompt \o "\""

\* the try of main around think and act: what await brain.think(prompt) gave, acted on
TryBlock(thinkOutcome, a, f, t, randomPair, randomQuestion) ==
    IF thinkOutcome.threw
    THEN [action |-> "", tried |-> Thrown(thinkOutcome.message, <<>>)]
    ELSE [action |-> thinkOutcome.value.action,
          tried |-> Act(thinkOutcome.value, a, f, t, randomPair, randomQuestion)]

MainNoCatch(tried) ==
    [crashed |-> tried.threw,
     observation |-> IF tried.threw THEN Null ELSE tried.observation,
     reflection |-> IF tried.threw THEN "needs improvement" ELSE tried.reflection]

\* the catch of main (lines 209-212)
MainCatch(tried) ==
    IF tried.threw
    THEN [crashed |-> FALSE, observation |-> Str("Error: " \o tried.message),
          reflection |-> "needs improvement"]
    ELSE [crashed |-> FALSE, observation |-> tried.observation, reflection |-> tried.reflection]

\* JavaScript truthiness of result.observation
Truthy(v) == ~("null" \in DOMAIN v) /\ ~(IsStr(v) /\ v.str = "")

\* lines 214-219: the value given to console.log
Output(a, r) == IF a.jsonOnly /\ Truthy(r.observation) THEN r.observation ELSE r

(***************************************************************************)
(* SpecRouter: DeterministicBrain.decide on every prompt of up to MaxWords *)
(* words of RouterWords.                                                   *)
(***************************************************************************)
MaxWords == 2

RouterWords ==
    {"engagement", "Pulse", "checkin", "dormant", "inactive", "tips", "advice",
     "suggestion", "one", "sided", "one-sided", "imbalance", "echo", "debug",
     "which", "Who", "list", "show", "showing", "whole", "multiple", "hello"}

RECURSIVE PromptsOf(_)
PromptsOf(n) ==
    IF n = 0 THEN {}
    ELSE RouterWords \cup PromptsOf(n - 1)
         \cup {p \o " " \o w : p \in PromptsOf(n - 1), w \in RouterWords}

InitRouter ==
    /\ pc = "router"
    /\ args \in {[BaseArgs EXCEPT !.prompt = p] : p \in PromptsOf(MaxWords)}
    /\ files = BaseFiles
    /\ now = 0
    /\ req = IdleReq
    /\ genPromise = IdlePromise
    /\ decision = NoDecision
    /\ result = NoResult
    /\ stdout = <<>>
    /\ exitCode = -1
    /\ trace = NoTrace

RouterDecide ==
    /\ pc = "router"
    /\ decision' = Return(Decide(args.prompt))
    /\ pc' = "decided"
    /\ UNCHANGED <<args, files, now, req, genPromise, result, stdout, exitCode, trace>>

NextRouter == RouterDecide

SpecRouter == InitRouter /\ [][NextRouter]_vars

(***************************************************************************)
(* SpecPulse: EngagementPulse.run over every check-in file of up to        *)
(* MaxCheckins records.                                                    *)
(***************************************************************************)
MaxCheckins == 3
ClockTick == 60

PulsePairs == {"p001", "p002", "p003"}
\* with the clock at 60: 27 days, 15 days, 14.5 days, 14 days and 0 days ago
PulseStamps == {6, 30, 31, 32, 60}

RECURSIVE SeqsUpTo(_, _)
SeqsUpTo(S, n) ==
    IF n = 0 THEN {<<>>}
    ELSE SeqsUpTo(S, n - 1) \cup {Append(q, x) : q \in SeqsUpTo(S, n - 1), x \in S}

PulseCheckins == {CheckIn(p, t) : p \in PulsePairs, t \in PulseStamps}

InitPulse ==
    /\ pc = "pulse"
    /\ args = BaseArgs
    /\ files \in {[BaseFiles EXCEPT !.checkins = c] : c \in SeqsUpTo(PulseCheckins, MaxCheckins)}
    /\ now = ClockTick
    /\ req = IdleReq
    /\ genPromise = IdlePromise
    /\ decision = NoDecision
    /\ result = NoResult
    /\ stdout = <<>>
    /\ exitCode = -1
    /\ trace = NoTrace

\* pulse.run({mode, limit}) as main calls it: limit is the parsed --limit
PulseRun(mode, limit) ==
    /\ pc = "pulse"
    /\ args' = [args EXCEPT !.limit = limit]
    /\ result' = [result EXCEPT !.action = mode,
                                !.observation = EngagementPulseRun(files, now, mode, limit)]
    /\ pc' = "ran"
    /\ UNCHANGED <<files, now, req, genPromise, decision, stdout, exitCode, trace>>

NextPulse == \E mode \in {"summary", "list"}, limit \in {0, 1, 2} : PulseRun(mode, limit)

SpecPulse == InitPulse /\ [][NextPulse]_vars

(***************************************************************************)
(* SpecBalance: EngagementPulse.run over every message file of up to       *)
(* MaxMessages records, for every set of pairs that have checked in.       *)
(***************************************************************************)
MaxMessages == 4

PulseMessages == {Message(p, r) : p \in PulsePairs, r \in {"mentor", "mentee"}}

\* one check-in per pair of a set of pairs, 27 days ago
CheckinsOf(pairs) ==
    LET present == SelectSeq(<<"p001", "p002", "p003">>, LAMBDA p : p \in pairs)
    IN  [i \in 1..Len(present) |-> CheckIn(present[i], 6)]

Repeat(x, n) == [i \in 1..n |-> x]

\* messages.csv with more than RecentWindow messages of p001: `old` from the
\* mentee, then RecentWindow of which the first `mentors` are from the mentor,
\* and messages of p002 in between and after
LongMessages(old, mentors) ==
    Repeat(Message("p001", "mentee"), old) \o <<Message("p002", "mentor")>>
        \o Repeat(Message("p001", "mentor"), mentors)
        \o Repeat(Message("p001", "mentee"), RecentWindow - mentors)
        \o <<Message("p002", "mentor"), Message("p002", "mentee")>>

LongMessageFiles ==
    {LongMessages(old, mentors) : old \in {0, 1, 30}, mentors \in {19, 20, 30, 31}}

InitBalance ==
    /\ pc = "pulse"
    /\ args = BaseArgs
    /\ files \in {[BaseFiles EXCEPT !.checkins = CheckinsOf(pairs), !.messages = m] :
                    pairs \in SUBSET PulsePairs,
                    m \in SeqsUpTo(PulseMessages, MaxMessages) \cup LongMessageFiles}
    /\ now = ClockTick
    /\ req = IdleReq
    /\ genPromise = IdlePromise
    /\ decision = NoDecision
    /\ result = NoResult
    /\ stdout = <<>>
    /\ exitCode = -1
    /\ trace = NoTrace

SpecBalance == InitBalance /\ [][NextPulse]_vars

(***************************************************************************)
(* Tip retrieval alone: MentorTips.retrieve over a tips.json of up to      *)
(* MaxTips tips, TipsRAG.findSimilar for every topK, and                   *)
(* TipsRAG.cosineSimilarity over pairs of texts.                           *)
(***************************************************************************)
MaxTips == 3

Tip(id, situation, text) == [tip_id |-> id, situation |-> situation, text |-> text]

\* the documents are "dormant note", "dormant ask", "quiet listen" and " "
TipPool ==
    {Tip("t001", "dormant", "note"), Tip("t002", "dormant", "ask"),
     Tip("t003", "quiet", "listen"), Tip("t004", "", "")}

TipQueries ==
    {"dormant", "dormant note", "dormant dormant", "go quiet", "echo hello", "the", "",
     "Tips for a mentee", "Ask me: ask"}

TipCorpora ==
    {q \in SeqsUpTo(TipPool, MaxTips) : \A i, j \in 1..Len(q) : i # j => q[i] # q[j]}

InitTips ==
    /\ pc = "tips"
    /\ args \in {[BaseArgs EXCEPT !.prompt = q] : q \in TipQueries}
    /\ files \in {[BaseFiles EXCEPT !.tips = t, !.missing = m] :
                    t \in TipCorpora, m \in {{}, {"tips.json"}}}
    /\ now = ClockTick
    /\ req = IdleReq
    /\ genPromise = IdlePromise
    /\ decision = NoDecision
    /\ result = NoResult
    /\ stdout = <<>>
    /\ exitCode = -1
    /\ trace = NoTrace

\* tips.retrieve(prompt)
TipsRetrieve ==
    /\ pc = "tips"
    /\ result' = [result EXCEPT !.action = "mentor_tips",
                                !.observation = MentorTipsRetrieve(files, args.prompt)]
    /\ pc' = "retrieved"
    /\ UNCHANGED <<args, files, now, req, genPromise, decision, stdout, exitCode, trace>>

\* rag.findSimilar(prompt, documents, topK)
TipsRank(topK) ==
    /\ pc = "tips"
    /\ "tips.json" \notin files.missing
    /\ result' = [result EXCEPT !.action = "findSimilar",
                                !.observation = [type |-> "ranked", topK |-> topK,
                                                 items |-> FindSimilar(args.prompt,
                                                              TipDocuments(files.tips), topK)]]
    /\ pc' = "ranked"
    /\ UNCHANGED <<args, files, now, req, genPromise, decision, stdout, exitCode, trace>>

\* cosineSimilarity(vectorise(a), vectorise(b)), and the other way round, and of a with itself
TipsCompare(a, b) ==
    /\ pc = "tips"
    /\ result' = [result EXCEPT !.action = "cosineSimilarity",
                                !.observation =
                                    [type |-> "cosine", a |-> a, b |-> b,
                                     ab |-> CosineSimilarity(Vectorise(a), Vectorise(b)),
                                     ba |-> CosineSimilarity(Vectorise(b), Vectorise(a)),
                                     aa |-> CosineSimilarity(Vectorise(a), Vectorise(a))]]
    /\ pc' = "compared"
    /\ UNCHANGED <<args, files, now, req, genPromise, decision, stdout, exitCode, trace>>

\* vectorise(prompt)
TipsVectorise ==
    /\ pc = "tips"
    /\ result' = [result EXCEPT !.action = "vectorise",
                                !.observation = [type |-> "vector", text |-> args.prompt,
                                                 vector |-> Vectorise(args.prompt)]]
    /\ pc' = "vectorised"
    /\ UNCHANGED <<args, files, now, req, genPromise, decision, stdout, exitCode, trace>>

NextTips ==
    \/ TipsRetrieve
    \/ TipsVectorise
    \/ \E topK \in 0..MaxTips : TipsRank(topK)
    \/ \E b \in TipQueries \cup {"dormant ask", "note dormant"} : TipsCompare(args.prompt, b)

SpecTips == InitTips /\ [][NextTips]_vars

(***************************************************************************)
(* Nudge composition alone: ComposeNudge.compose over data directories     *)
(* with and without the records a pairing refers to.                       *)
(***************************************************************************)
NudgePairIds == {"", "p001", "p002", "p404"}

\* the summary string main hands over, around the cadences 7 and 30
NudgeEngagement(days) ==
    "sample=2 dormant=1 balance=balanced last_checkin_days=" \o ToString(days)

NudgeEngagements == {NudgeEngagement(d) : d \in {0, 7, 8, 30, 31}} \cup {"no engagement data"}

NudgeTips == {"(t001 0.58) Send a short check-in note. | (t002 0) Ask open questions.", NoTipsFound}

Without(seq, key(_), id) == SelectSeq(seq, LAMBDA r : key(r) # id)

NudgeFiles ==
    {[BaseFiles EXCEPT !.users = u, !.pairings = p, !.programmes = g] :
        u \in {FixtureUsers, Without(FixtureUsers, LAMBDA r : r.user_id, "u001"),
               Without(FixtureUsers, LAMBDA r : r.user_id, "m002")},
        p \in {FixturePairings, <<>>},
        g \in {FixtureProgrammes, Without(FixtureProgrammes, LAMBDA r : r.programme_id, "prog002")}}

InitNudge ==
    /\ pc = "nudge"
    /\ args \in {[BaseArgs EXCEPT !.pairId = id] : id \in NudgePairIds}
    /\ files \in NudgeFiles
    /\ now = ClockTick
    /\ req = IdleReq
    /\ genPromise = IdlePromise
    /\ decision = NoDecision
    /\ result = NoResult
    /\ stdout = <<>>
    /\ exitCode = -1
    /\ trace = NoTrace

\* nudge.compose(engagementData, tips, pairId)
NudgeCompose(engagementData, tips, randomPair, randomQuestion) ==
    /\ pc = "nudge"
    /\ result' = [result EXCEPT !.action = "compose_nudge",
                                !.observation =
                                    [type |-> "composed", engagementData |-> engagementData,
                                     tips |-> tips, randomPair |-> randomPair,
                                     outcome |-> ComposeNudgeCompose(files, engagementData, tips,
                                                     args.pairId, randomPair, randomQuestion)]]
    /\ pc' = "composed"
    /\ UNCHANGED <<args, files, now, req, genPromise, decision, stdout, exitCode, trace>>

NextNudge ==
    \E engagementData \in NudgeEngagements, tips \in NudgeTips,
       randomPair \in 0..(IF files.pairings = <<>> THEN 0 ELSE Len(files.pairings) - 1),
       randomQuestion \in 0..(Len(SuggestedQuestions) - 1) :
        NudgeCompose(engagementData, tips, randomPair, randomQuestion)

SpecNudge == InitNudge /\ [][NextNudge]_vars

(***************************************************************************)
(* Router properties (SpecRouter)                                          *)
(***************************************************************************)
RuleKeywords ==
    << {"engagement", "pulse", "checkin"},
       {"dormant", "inactive"},
       {"one sided", "one-sided", "imbalance"},
       {"tip", "advice", "suggestion"},
       {"echo"},
       {"debug"} >>

RuleMatches(i, prompt) ==
    i = Len(RuleKeywords) + 1 \/ \E k \in RuleKeywords[i] : Includes(ToLowerCase(prompt), k)

FirstRule(prompt) ==
    CHOOSE i \in 1..(Len(RuleKeywords) + 1) :
        RuleMatches(i, prompt) /\ \A j \in 1..(i - 1) : ~RuleMatches(j, prompt)

HasTipOrAdvice(prompt) == \E k \in {"tip", "advice"} : Includes(ToLowerCase(prompt), k)

RuleAction(i, prompt) ==
    CASE i = 1 -> "USE:engagement_pulse:" \o InferMode(prompt)
      [] i = 2 -> IF HasTipOrAdvice(prompt) THEN "USE:mentor_tips"
                  ELSE "USE:engagement_pulse:" \o InferMode(prompt)
      [] i = 3 -> "USE:mentor_tips"
      [] i = 4 -> "USE:mentor_tips"
      [] i = 5 -> "USE:echo"
      [] i = 6 -> DebugRespond
      [] OTHER -> DefaultRespond(prompt)

\* C3: the deterministic router returns the action of the first of its seven
\* rules, in the fixed priority order, that matches the lower-cased prompt;
\* within rule 2 a prompt that also contains tip/advice yields USE:mentor_tips.
C3_FirstMatchingRuleWins ==
    pc = "decided" => decision.value.action = RuleAction(FirstRule(args.prompt), args.prompt)

\* a prompt matching rule 2 and the lower rule 5 was routed by rule 2, without
\* tip/advice, to engagement_pulse
C3_Witness ==
    /\ pc = "decided"
    /\ FirstRule(args.prompt) = 2
    /\ RuleMatches(5, args.prompt)
    /\ ~HasTipOrAdvice(args.prompt)
    /\ decision.value.action = "USE:engagement_pulse:summary"

RoutedToPulse == pc = "decided" /\ StartsWith(decision.value.action, "USE:engagement_pulse")

ContainsListWordAsSubstring(prompt) ==
    \E w \in ListWords : Includes(ToLowerCase(prompt), w)

ContainsListWordAsWord(prompt) ==
    \E i \in 1..Len(WordsOf(prompt)) : WordsOf(prompt)[i] \in ListWords

\* C4 as stated: for a prompt routed to engagement_pulse the mode is "list" iff
\* the prompt contains one of which, who, list, show (case-insensitive), else
\* "summary"; the action's mode suffix equals the decision's mode field.
C4_ModeIffContainsListWord ==
    RoutedToPulse =>
        /\ decision.value.mode = (IF ContainsListWordAsSubstring(args.prompt) THEN "list" ELSE "summary")
        /\ decision.value.action = "USE:engagement_pulse:" \o decision.value.mode

\* C4 amended: the mode is "list" iff one of which, who, list, show occurs in
\* the prompt as a whole word (case-insensitive), else "summary"; the action's
\* mode suffix equals the decision's mode field.
C4_ModeIffListWordAsWholeWord ==
    RoutedToPulse =>
        /\ decision.value.mode = (IF ContainsListWordAsWord(args.prompt) THEN "list" ELSE "summary")
        /\ decision.value.action = "USE:engagement_pulse:" \o decision.value.mode

\* a pulse-routed prompt with "show" only inside a longer word, in summary mode
C4_Witness ==
    /\ RoutedToPulse
    /\ ContainsListWordAsSubstring(args.prompt)
    /\ ~ContainsListWordAsWord(args.prompt)
    /\ decision.value.mode = "summary"
    /\ decision.value.action = "USE:engagement_pulse:summary"

(***************************************************************************)
(* Engagement analytics properties (SpecPulse)                             *)
(***************************************************************************)
PairsWithCheckins(f) == {f.checkins[i].pair_id : i \in 1..Len(f.checkins)}

LatestCheckin(f, p) ==
    CHOOSE t \in {f.checkins[i].timestamp : i \in {j \in 1..Len(f.checkins) : f.checkins[j].pair_id = p}} :
        \A i \in 1..Len(f.checkins) : f.checkins[i].pair_id = p => f.checkins[i].timestamp <= t

WholeDaysSinceLatest(f, t, p) == (t - LatestCheckin(f, p)) \div TicksPerDay

DormantSet(f, t) == {p \in PairsWithCheckins(f) : WholeDaysSinceLatest(f, t, p) > 14}

PulseRan(mode) == pc = "ran" /\ result.observation.type = mode

CadenceOfPair(f, p) ==
    LET pairing == Find(f.pairings, LAMBDA x : x.pair_id = p)
        programme == Find(f.programmes, LAMBDA x : x.programme_id = pairing[1].programme_id)
    IN  programme[1].cadence_days

\* C9: a pair is counted dormant iff the whole days since its most recent
\* check-in exceed 14 (15 days is dormant, 14 is not), whatever its programme's
\* cadence: summary.dormant and list.dormant_count count exactly those pairs, and
\* the listed pairs are among them.
C9_DormantIffOver14Days ==
    /\ PulseRan("summary") => result.observation.dormant = Cardinality(DormantSet(files, now))
    /\ PulseRan("list") =>
        /\ result.observation.dormant_count = Cardinality(DormantSet(files, now))
        /\ \A i \in 1..Len(result.observation.mentees) :
              result.observation.mentees[i].pair_id \in DormantSet(files, now)

\* p002 (cadence 30) last checked in exactly 15 days ago and is the one dormant
\* pair; p001 (cadence 7) exactly 14 days ago and is not counted
C9_Witness ==
    /\ PulseRan("list")
    /\ PairsWithCheckins(files) = {"p001", "p002"}
    /\ now - LatestCheckin(files, "p002") = 15 * TicksPerDay
    /\ now - LatestCheckin(files, "p001") = 14 * TicksPerDay
    /\ CadenceOfPair(files, "p002") > 15 /\ CadenceOfPair(files, "p001") < 14
    /\ result.observation.dormant_count = 1
    /\ result.observation.mentees[1].pair_id = "p002"

MaxOf(S) == CHOOSE m \in S : \A x \in S : x <= m

\* C10: summary mode returns sample = the number of distinct pairs with at least
\* one check-in, dormant = the number of those that are dormant (0 <= dormant <=
\* sample) and last_checkin_days = the maximum days_since over those pairs.
C10_SummaryCounts ==
    PulseRan("summary") =>
        /\ result.observation.sample = Cardinality(PairsWithCheckins(files))
        /\ result.observation.dormant = Cardinality(DormantSet(files, now))
        /\ 0 <= result.observation.dormant
        /\ result.observation.dormant <= result.observation.sample
        /\ PairsWithCheckins(files) # {} =>
             result.observation.last_checkin_days =
                MaxOf({WholeDaysSinceLatest(files, now, p) : p \in PairsWithCheckins(files)})

\* three pairs with check-ins, one pair with two records, one dormant pair, and
\* the first pair in file order is not the most overdue
C10_Witness ==
    /\ PulseRan("summary")
    /\ Len(files.checkins) > Cardinality(PairsWithCheckins(files))
    /\ result.observation.sample = 2
    /\ result.observation.dormant = 1
    /\ result.observation.last_checkin_days = 27
    /\ WholeDaysSinceLatest(files, now, files.checkins[1].pair_id) < 27

Min(a, b) == IF a <= b THEN a ELSE b

ListedPairs == {result.observation.mentees[i].pair_id : i \in 1..Len(result.observation.mentees)}

\* C12: list mode returns dormant_count = the number of all dormant pairs and
\* mentees = the top `limit` dormant pairs in non-increasing order of days since
\* the last check-in: min(limit, dormant_count) entries, each a dormant pair, and
\* no unlisted dormant pair more overdue than a listed one.
C12_ListIsTopLimitDormant ==
    PulseRan("list") =>
        LET mentees == result.observation.mentees
        IN  /\ result.observation.dormant_count = Cardinality(DormantSet(files, now))
            /\ Len(mentees) = Min(args.limit, result.observation.dormant_count)
            /\ \A i \in 1..Len(mentees) :
                  /\ mentees[i].pair_id \in DormantSet(files, now)
                  /\ mentees[i].last_checkin_days =
                        WholeDaysSinceLatest(files, now, mentees[i].pair_id)
            /\ \A i, j \in 1..Len(mentees) :
                  i < j => mentees[i].last_checkin_days >= mentees[j].last_checkin_days
            /\ \A p \in DormantSet(files, now) \ ListedPairs :
                  \A i \in 1..Len(mentees) :
                      WholeDaysSinceLatest(files, now, p) <= mentees[i].last_checkin_days

PairingIds(f) == {f.pairings[i].pair_id : i \in 1..Len(f.pairings)}

\* C13: in list mode a dormant pair whose pair_id has no pairing record is listed
\* as {mentee_id: "unknown", first_name: "Unknown", pair_id, last_checkin_days},
\* and the call still returns a list result.
C13_UnresolvedPairIsPlaceholder ==
    (pc = "ran" /\ result.action = "list") =>
        /\ result.observation.type = "list"
        /\ \A i \in 1..Len(result.observation.mentees) :
              LET entry == result.observation.mentees[i]
              IN  entry.pair_id \notin PairingIds(files) =>
                    entry = [mentee_id |-> "unknown", first_name |-> "Unknown",
                             pair_id |-> entry.pair_id,
                             last_checkin_days |->
                                 WholeDaysSinceLatest(files, now, entry.pair_id)]

\* p003 has no pairing record and is listed as a placeholder, after the resolved p002
C13_Witness ==
    /\ PulseRan("list")
    /\ "p003" \notin PairingIds(files)
    /\ Len(result.observation.mentees) = 2
    /\ result.observation.mentees[1].pair_id = "p002"
    /\ result.observation.mentees[1].first_name = "Tom"
    /\ result.observation.mentees[2] =
          [mentee_id |-> "unknown", first_name |-> "Unknown", pair_id |-> "p003",
           last_checkin_days |-> 15]

\* the number of messages of a pair written by a role
MessagesBy(f, p, role) ==
    Cardinality({i \in 1..Len(f.messages) :
                    f.messages[i].pair_id = p /\ f.messages[i].author_role = role})

\* the positions in messages.csv of the last 50 messages of a pair
RecentOf(f, p) ==
    LET own == {i \in 1..Len(f.messages) : f.messages[i].pair_id = p}
    IN  {i \in own : Cardinality({j \in own : j > i}) < 50}

\* how many of the last 50 messages of a pair a role wrote
RecentBy(f, p, role) == Cardinality({i \in RecentOf(f, p) : f.messages[i].author_role = role})

\* the pairs with recency data whose recent messages are more than 1.5 to 1 from one side
HeavyPairs(f, role, other) ==
    {p \in PairsWithCheckins(f) : 2 * RecentBy(f, p, role) > 3 * RecentBy(f, p, other)}

\* C11: the summary's balance is mentor_heavy when more than half of the pairs
\* with a check-in are mentor_heavy, mentee_heavy when more than half are
\* mentee_heavy, and "balanced" in every other case, ties and the empty sample
\* included.
C11_BalanceIsMajority ==
    PulseRan("summary") =>
        LET n == Cardinality(PairsWithCheckins(files))
            mentorHeavy == Cardinality(HeavyPairs(files, "mentor", "mentee"))
            menteeHeavy == Cardinality(HeavyPairs(files, "mentee", "mentor"))
        IN  /\ result.observation.balance = "mentor_heavy" <=> 2 * mentorHeavy > n
            /\ result.observation.balance = "mentee_heavy" <=> 2 * menteeHeavy > n
            /\ result.observation.balance = "balanced" <=>
                  (2 * mentorHeavy <= n /\ 2 * menteeHeavy <= n)

\* a tie: two pairs, one of them mentor_heavy, and the balance is "balanced"
C11_Witness ==
    /\ PulseRan("summary")
    /\ Cardinality(PairsWithCheckins(files)) = 2
    /\ Cardinality(HeavyPairs(files, "mentor", "mentee")) = 1
    /\ HeavyPairs(files, "mentee", "mentor") = {}
    /\ result.observation.balance = "balanced"

\* the recency map after the check-ins are analysed
RecencyMap == AnalyseCheckins(files.checkins, now, <<>>)

\* C26: the recency map holds one entry for each pair with a check-in and
\* none for any other pair; the entry keeps the pair's greatest timestamp,
\* wherever that record stands in the file, with days_since = floor((now -
\* timestamp) / 1 day); sample and dormant count only the pairs of the map.
C26_RecencyKeepsLatestCheckin ==
    pc = "ran" =>
        LET stats == RecencyMap
        IN  /\ {stats[i].pairId : i \in 1..Len(stats)} = PairsWithCheckins(files)
            /\ Len(stats) = Cardinality(PairsWithCheckins(files))
            /\ \A i \in 1..Len(stats) :
                   /\ stats[i].lastCheckin = LatestCheckin(files, stats[i].pairId)
                   /\ stats[i].daysSince * TicksPerDay <= now - stats[i].lastCheckin
                   /\ now - stats[i].lastCheckin < (stats[i].daysSince + 1) * TicksPerDay
            /\ PulseRan("summary") =>
                   /\ result.observation.sample = Len(stats)
                   /\ result.observation.dormant
                          = Cardinality({i \in 1..Len(stats) : stats[i].daysSince > 14})
            /\ PulseRan("list") =>
                   \A i \in 1..Len(result.observation.mentees) :
                       /\ result.observation.mentees[i].pair_id \in PairsWithCheckins(files)
                       /\ result.observation.mentees[i].last_checkin_days
                              = WholeDaysSinceLatest(files, now, result.observation.mentees[i].pair_id)

\* p002 has two records, the older one last in the file; p001 and p003 have
\* none and are not counted
C26_Witness ==
    /\ PulseRan("summary")
    /\ Len(files.checkins) = 2
    /\ PairsWithCheckins(files) = {"p002"}
    /\ files.checkins[2].timestamp < files.checkins[1].timestamp
    /\ now - files.checkins[1].timestamp = 29
    /\ result.observation.sample = 1
    /\ result.observation.dormant = 0
    /\ result.observation.last_checkin_days = 14

\* the map after check-ins and messages are analysed
BalanceMap == PairStats(files, now)

\* C27: a pair's balance is computed from its last 50 messages in file
\* order: mentor_heavy iff the mentor wrote more than 1.5 times as many of
\* them as the mentee, mentee_heavy iff the reverse, balanced otherwise; a
\* balance is held only for pairs of the recency map, and a pair with
\* check-ins and no message is balanced.
C27_BalanceFromLast50Messages ==
    pc = "ran" =>
        LET stats == BalanceMap
        IN  /\ {stats[i].pairId : i \in 1..Len(stats)} = PairsWithCheckins(files)
            /\ \A i \in 1..Len(stats) :
                   LET mentor == RecentBy(files, stats[i].pairId, "mentor")
                       mentee == RecentBy(files, stats[i].pairId, "mentee")
                   IN  /\ stats[i].balance = "mentor_heavy" <=> 2 * mentor > 3 * mentee
                       /\ stats[i].balance = "mentee_heavy" <=>
                              (2 * mentor <= 3 * mentee /\ 2 * mentee > 3 * mentor)
                       /\ stats[i].balance \in {"mentor_heavy", "mentee_heavy", "balanced"}
                       /\ mentor + mentee = 0 => stats[i].balance = "balanced"
            /\ (PulseRan("summary") /\ Len(stats) = 1) =>
                   result.observation.balance = stats[1].balance

\* p001 alone has check-ins; of its 80 messages the mentee wrote 50, but of
\* the last 50 the mentor wrote 30 and the mentee 20
C27_Witness ==
    /\ PulseRan("summary")
    /\ PairsWithCheckins(files) = {"p001"}
    /\ MessagesBy(files, "p001", "mentee") = 50
    /\ MessagesBy(files, "p001", "mentor") = 30
    /\ RecentBy(files, "p001", "mentor") = 30
    /\ RecentBy(files, "p001", "mentee") = 20
    /\ MessagesBy(files, "p002", "mentor") = 2
    /\ result.observation.balance = "balanced"

(***************************************************************************)
(* Properties of tip retrieval (SpecTips)                                  *)
(***************************************************************************)
ScoreEq(a, b) == ScoreGeq(a, b) /\ ScoreGeq(b, a)

UnitScore == [num |-> 1, den2 |-> 1, excess |-> 0]

ScoreOf(query, text) == CosineSimilarity(Vectorise(query), Vectorise(text))

\* the tips of tips.json whose document scores above 0 against the query
PositiveTips(f, query) ==
    {i \in 1..Len(f.tips) : ScorePositive(ScoreOf(query, TipDocuments(f.tips)[i].text))}

\* C14: tip retrieval returns {type: "tips", hits: []} whenever tips.json
\* holds no tip or no tip scores above 0 against the query; the result is an
\* error exactly when tips.json cannot be loaded; there are never more than
\* 2 hits.
C14_NoPositiveScoreGivesNoHits ==
    pc = "retrieved" =>
        LET obs == result.observation
        IN  /\ obs.type = "error" <=> "tips.json" \in files.missing
            /\ obs.type = "tips" => Len(obs.hits) <= 2
            /\ "tips.json" \notin files.missing
                    /\ (files.tips = <<>> \/ PositiveTips(files, args.prompt) = {})
                => obs = [type |-> "tips", hits |-> <<>>]

\* C15: findSimilar(query, docs, k) returns exactly min(k, |docs|) of the
\* documents, each with its score, in non-increasing score order, and two
\* returned documents of equal score stand in their corpus order.
C15_RankIsTopKStable ==
    pc = "ranked" =>
        LET docs == TipDocuments(files.tips)
            items == result.observation.items
            at(id) == CHOOSE i \in 1..Len(docs) : docs[i].id = id
        IN  /\ Len(items) = Min(result.observation.topK, Len(docs))
            /\ \A i \in 1..Len(items) :
                   /\ \E d \in 1..Len(docs) : docs[d].id = items[i].id
                   /\ items[i].text = docs[at(items[i].id)].text
                   /\ items[i].score = ScoreOf(args.prompt, items[i].text)
            /\ \A i, j \in 1..Len(items) :
                   i < j => /\ ScoreGeq(items[i].score, items[j].score)
                            /\ ScoreEq(items[i].score, items[j].score)
                                   => at(items[i].id) < at(items[j].id)

\* a corpus of three: the lowest-scoring document comes first, two documents
\* tie above it, and both of them are returned
C15_Witness ==
    /\ pc = "ranked"
    /\ Len(files.tips) = 3
    /\ result.observation.topK = 2
    /\ Len(result.observation.items) = 2
    /\ result.observation.items[1].id # TipDocuments(files.tips)[1].id
    /\ result.observation.items[2].id # TipDocuments(files.tips)[1].id
    /\ ScorePositive(result.observation.items[1].score)
    /\ ScoreEq(result.observation.items[1].score, result.observation.items[2].score)

\* C16: cosine similarity is symmetric, lies in [0, 1], is 1 for a non-zero
\* vector against itself, and is 0 when either vector has magnitude 0.
C16_CosineSymmetricBoundedUnit ==
    pc = "compared" =>
        LET o == result.observation
        IN  /\ ScoreEq(o.ab, o.ba)
            /\ ScoreGeq(o.ab, ZeroScore) /\ ScoreGeq(UnitScore, o.ab)
            /\ ScoreGeq(o.aa, ZeroScore) /\ ScoreGeq(UnitScore, o.aa)
            /\ DOMAIN Vectorise(o.a) # {} => ScoreEq(o.aa, UnitScore)
            /\ DOMAIN Vectorise(o.a) = {} \/ DOMAIN Vectorise(o.b) = {} => o.ab = ZeroScore

\* how often a feature is counted as a unigram: by the tokens equal to it
\* that are longer than 2 and no stop word
UnigramCount(words, k) ==
    Cardinality({i \in 1..Len(words) :
                    words[i] = k /\ Len(words[i]) > 2 /\ words[i] \notin StopWords})

\* how often a feature is counted as a bigram: by the adjacent pairs of
\* tokens, neither a stop word, that joined by "_" give it
BigramCount(words, k) ==
    Cardinality({i \in 1..(Len(words) - 1) :
                    /\ words[i] \notin StopWords /\ words[i + 1] \notin StopWords
                    /\ words[i] \o "_" \o words[i + 1] = k})

\* every token and every adjacent pair of tokens, joined by "_"
Candidates(words) ==
    {words[i] : i \in 1..Len(words)}
        \cup {words[i] \o "_" \o words[i + 1] : i \in 1..(Len(words) - 1)}

\* C28: vectorise counts a unigram for each token longer than 2 that is no
\* stop word and a bigram for each adjacent pair of tokens neither of which
\* is a stop word, tokens of length 2 or less included; the vector holds
\* exactly the features counted at least once, each with its count.
C28_VectoriseUnigramsAndBigrams ==
    pc = "vectorised" =>
        LET words == WordsOf(result.observation.text)
            vector == result.observation.vector
        IN  /\ DOMAIN vector = {k \in Candidates(words) :
                                   UnigramCount(words, k) + BigramCount(words, k) > 0}
            /\ \A k \in DOMAIN vector :
                   /\ vector[k] = UnigramCount(words, k) + BigramCount(words, k)
                   /\ vector[k] >= 1

\* "me" is too short for a unigram and still part of two bigrams
C28_Witness ==
    /\ pc = "vectorised"
    /\ result.observation.text = "Ask me: ask"
    /\ DOMAIN result.observation.vector = {"ask", "ask_me", "me_ask"}
    /\ result.observation.vector["ask"] = 2
    /\ result.observation.vector["ask_me"] = 1

(***************************************************************************)
(* Properties of nudge composition (SpecNudge)                             *)
(***************************************************************************)
Composed == pc = "composed"

\* the pairing a pair id names, as a sequence of at most one
ResolvedPair(f, pairId) == SelectSeq(f.pairings, LAMBDA p : pairId # "" /\ p.pair_id = pairId)

\* the pairing the random draw of the composition points at
DrawnPair(f) ==
    IF f.pairings = <<>> THEN <<>> ELSE <<f.pairings[result.observation.randomPair + 1]>>

UsersNamed(f, id) == SelectSeq(f.users, LAMBDA u : u.user_id = id)

ProgrammesNamed(f, id) == SelectSeq(f.programmes, LAMBDA g : g.programme_id = id)

HasAllRecords(f, pair) ==
    /\ UsersNamed(f, pair.mentee_id) # <<>>
    /\ UsersNamed(f, pair.mentor_id) # <<>>
    /\ ProgrammesNamed(f, pair.programme_id) # <<>>

\* the head of the message composed for a pairing
MessageHead(f, pair) ==
    "To: " \o UsersNamed(f, pair.mentee_id)[1].first_name \o "\nSubject: Checking in on your "
        \o ProgrammesNamed(f, pair.programme_id)[1].name \o " progress\nBody: "

IsMessage(outcome) == "value" \in DOMAIN outcome /\ StartsWith(outcome.value, "To: ")

\* C17: with a non-empty pairing set the composer always works with a
\* pairing: the one the supplied pair_id names if it names one, and a
\* randomly drawn one if it names none or no pair_id is supplied.
C17_PairIdOrRandomPairing ==
    Composed /\ files.pairings # <<>> =>
        LET chosen == IF ResolvedPair(files, args.pairId) # <<>>
                      THEN ResolvedPair(files, args.pairId)[1] ELSE DrawnPair(files)[1]
            outcome == result.observation.outcome
        IN  /\ outcome # Return(NoPairingFound)
            /\ HasAllRecords(files, chosen)
                   => IsMessage(outcome) /\ StartsWith(outcome.value, MessageHead(files, chosen))

\* the pairing compose works with: found by pair_id when one is supplied, drawn otherwise
TargetPair(f, pairId) == IF pairId # "" THEN ResolvedPair(f, pairId) ELSE DrawnPair(f)

\* C18: when the mentee, the mentor or the programme of the pairing being
\* composed for is missing from the loaded data, compose returns a string
\* starting with "Error: " instead of a To/Subject/Body message and throws
\* nothing.
C18_MissingRecordGivesErrorString ==
    Composed /\ TargetPair(files, args.pairId) # <<>>
             /\ ~HasAllRecords(files, TargetPair(files, args.pairId)[1]) =>
        LET outcome == result.observation.outcome
        IN  /\ "value" \in DOMAIN outcome
            /\ StartsWith(outcome.value, "Error: ")
            /\ ~Includes(outcome.value, "Subject: ") /\ ~Includes(outcome.value, "Body: ")

\* p001 is composed for and its mentee u001 is not among the users
C18_Witness ==
    /\ Composed
    /\ args.pairId = "p001"
    /\ ResolvedPair(files, "p001") # <<>>
    /\ UsersNamed(files, "u001") = <<>>
    /\ UsersNamed(files, "m001") # <<>>
    /\ ProgrammesNamed(files, "prog001") # <<>>
    /\ "value" \in DOMAIN result.observation.outcome

\* the days figure of the engagement string handed to compose, 14 when it has none
DaysGiven(engagementData) ==
    IF \E d \in 0..31 : engagementData = NudgeEngagement(d)
    THEN CHOOSE d \in 0..31 : engagementData = NudgeEngagement(d)
    ELSE 14

\* the sentence the first tip of the tips string contributes
TipSentence(tips) ==
    IF tips = NoTipsFound THEN "Stay connected with your mentor" ELSE "Send a short check-in note."

BodyOf(message) == SubSeq(message, IndexOf(message, "Body: ") + 6, Len(message))

HasQuestion(body) == \E i \in 1..Len(SuggestedQuestions) : Includes(body, SuggestedQuestions[i])

HasDigit(body) == \E i \in 1..Len(body) : Char(body, i) \in DigitSet

DaysPhrase(days) == "it has been " \o ToString(days) \o " days since your last check-in"

\* C19: a composed nudge has the overdue body exactly when the days since
\* the last check-in exceed the programme's cadence_days; the overdue body
\* holds the days figure and the tip sentence, the other body holds neither
\* tip text nor any days figure, and both hold one of the fixed questions.
C19_OverdueIffDaysExceedCadence ==
    Composed /\ IsMessage(result.observation.outcome) =>
        LET pair == TargetPair(files, args.pairId)[1]
            cadence == ProgrammesNamed(files, pair.programme_id)[1].cadence_days
            days == DaysGiven(result.observation.engagementData)
            body == BodyOf(result.observation.outcome.value)
            sentence == TipSentence(result.observation.tips)
        IN  /\ HasQuestion(body)
            /\ days > cadence => Includes(body, DaysPhrase(days)) /\ Includes(body, sentence)
            /\ days <= cadence => ~HasDigit(body) /\ ~Includes(body, sentence)
                                      /\ ~Includes(body, "last check-in")

\* the boundary: p001 on a cadence of 7 days, 7 days after the last check-in
C19_Witness ==
    /\ Composed
    /\ IsMessage(result.observation.outcome)
    /\ args.pairId = "p001"
    /\ result.observation.engagementData = NudgeEngagement(7)
    /\ ProgrammesNamed(files, "prog001")[1].cadence_days = 7
    /\ ~Includes(result.observation.outcome.value, "last check-in")

(***************************************************************************)
(* Spec: one invocation of cli.ts, from the parsed command line to exit.   *)
(*   pc: "start" -> ("thinking" ->) "acting" -> "done" -> "exited"         *)
(***************************************************************************)
MainPrompts ==
    {"", "echo hello", "which mentees look dormant", "tips for dormant mentees", "debug"}

MainProviders ==
    {[provider |-> "deterministic", apiKey |-> FALSE], [provider |-> "openai", apiKey |-> FALSE],
     [provider |-> "openai", apiKey |-> TRUE], [provider |-> "ollama", apiKey |-> FALSE]}

MainPairIds == {"", "p001", "p404"}

\* the deterministic brain is run on every prompt and flag combination
DeterministicArgs ==
    {[prompt |-> p, provider |-> "deterministic", apiKey |-> FALSE, pairId |-> i,
      limit |-> DefaultLimit, jsonOnly |-> j, compose |-> c] :
        p \in MainPrompts, i \in MainPairIds, j \in BOOLEAN, c \in BOOLEAN}

\* a model backend chooses the action itself, so one prompt is enough for it
BackendArgs ==
    {[prompt |-> "echo hello", provider |-> v.provider, apiKey |-> v.apiKey, pairId |-> "",
      limit |-> DefaultLimit, jsonOnly |-> j, compose |-> c] :
        v \in MainProviders \ {[provider |-> "deterministic", apiKey |-> FALSE]},
        j \in BOOLEAN, c \in BOOLEAN}

MainArgs == DeterministicArgs \cup BackendArgs

\* with the clock at 60: p001 checked in 14 days ago, p002 27 days ago
FixtureCheckins == <<CheckIn("p001", 20), CheckIn("p002", 6), CheckIn("p001", 32)>>

FixtureMessages ==
    <<Message("p001", "mentor"), Message("p001", "mentee"), Message("p002", "mentor")>>

\* with the clock at 60: p001 checked in 2 days ago, p002 27 days ago
RecentCheckins == <<CheckIn("p001", 56), CheckIn("p002", 6)>>

MainData ==
    LET full == [BaseFiles EXCEPT !.checkins = FixtureCheckins, !.messages = FixtureMessages]
    IN  {full, [full EXCEPT !.tips = <<>>], [full EXCEPT !.users = Tail(FixtureUsers)],
         [full EXCEPT !.checkins = RecentCheckins]}

MainMissing == {{}, {"checkins.csv"}, {"users.csv"}, {"tips.json"}, {"programmes.json"}}

MainFiles == {[d EXCEPT !.missing = m] : d \in MainData, m \in MainMissing}

BackendFiles == {f \in MainFiles : f.tips # <<>> /\ Len(f.users) = Len(FixtureUsers)}

MainRuns ==
    {[args |-> a, files |-> f] : a \in DeterministicArgs, f \in MainFiles}
    \cup {[args |-> a, files |-> f] : a \in BackendArgs, f \in BackendFiles}

BackendContents ==
    {"USE:engagement_pulse:list", "USE:engagement_pulse", "USE:mentor_tips", " USE:echo\n",
     "USE:compose_nudge", "USE:calendar", "RESPOND:Hello", "", "Error: overloaded"}

BackendBodies ==
    {Body("invalid", "", FALSE, ""), Body("null", "", FALSE, ""),
     Body("object", "rate limited", FALSE, ""), Body("object", "", FALSE, "")}
    \cup {Body("object", "", TRUE, c) : c \in BackendContents}

TransportErrors == {"connect ECONNREFUSED"}

Init ==
    /\ pc = "start"
    /\ \E run \in MainRuns : args = run.args /\ files = run.files
    /\ now = ClockTick
    /\ req = IdleReq
    /\ genPromise = IdlePromise
    /\ decision = NoDecision
    /\ result = NoResult
    /\ stdout = <<>>
    /\ exitCode = -1
    /\ trace = NoTrace

\* main up to await brain.think(prompt): lines 87-111, and think up to its await
MainStart ==
    /\ pc = "start"
    /\ IF args.prompt = ""
       THEN /\ pc' = "exited"
            /\ exitCode' = 1
            /\ UNCHANGED <<req, genPromise, decision, result>>
       ELSE /\ result' = [thought |-> Thought(args.prompt), action |-> "",
                          observation |-> Null, reflection |-> "needs improvement"]
            /\ exitCode' = exitCode
            /\ IF UsesBackend(args)
               THEN /\ req' = [req EXCEPT !.state = "inflight", !.sent = @ + 1]
                    /\ genPromise' = Pending
                    /\ pc' = "thinking"
                    /\ UNCHANGED decision
               ELSE /\ decision' = ThinkSync(args)
                    /\ pc' = "acting"
                    /\ UNCHANGED <<req, genPromise>>
    /\ UNCHANGED <<args, files, now, stdout, trace>>

\* res.on('end'): the whole body has arrived
ResponseEnd(body) ==
    /\ req.state = "inflight"
    /\ genPromise' = Settle(genPromise, OnEnd(args.provider, body, args.prompt))
    /\ req' = [req EXCEPT !.state = "ended", !.handled = Append(@, "end"), !.body = body]
    /\ UNCHANGED <<pc, args, files, now, decision, result, stdout, exitCode, trace>>

\* req.on('error'): a transport error, or the socket hang up that follows req.destroy()
RequestError(message) ==
    /\ req.state \in {"inflight", "destroyed"}
    /\ genPromise' = Settle(genPromise, OnError(args.provider, message))
    /\ req' = [req EXCEPT !.state = "closed", !.handled = Append(@, "error")]
    /\ UNCHANGED <<pc, args, files, now, decision, result, stdout, exitCode, trace>>

\* req.on('timeout'): req.destroy(), then reject
RequestTimeout ==
    /\ req.state = "inflight"
    /\ genPromise' = Settle(genPromise, OnTimeout(args.provider))
    /\ req' = [req EXCEPT !.state = "destroyed", !.handled = Append(@, "timeout")]
    /\ UNCHANGED <<pc, args, files, now, decision, result, stdout, exitCode, trace>>

\* think resumes from await generate(...) and returns
ThinkSettle ==
    /\ pc = "thinking"
    /\ genPromise.state \in {"resolved", "rejected"}
    /\ decision' = ThinkAwait(genPromise)
    /\ pc' = "acting"
    /\ UNCHANGED <<args, files, now, req, genPromise, result, stdout, exitCode, trace>>

\* Math.random() is read only by ComposeNudge.compose
MayCompose(thinkOutcome, a) ==
    /\ ~thinkOutcome.threw
    /\ \/ StartsWith(thinkOutcome.value.action, "USE:compose_nudge")
       \/ StartsWith(thinkOutcome.value.action, "USE:mentor_tips") /\ a.compose

RandomPairs(thinkOutcome, a, f) ==
    IF MayCompose(thinkOutcome, a) /\ Len(f.pairings) > 0 THEN 0..(Len(f.pairings) - 1) ELSE {0}

RandomQuestions(thinkOutcome, a) ==
    IF MayCompose(thinkOutcome, a) THEN 0..(Len(SuggestedQuestions) - 1) ELSE {0}

\* main resumes from await brain.think(prompt): lines 112-219, and 223-226 if it rejects
MainAct ==
    /\ pc = "acting"
    /\ \E randomPair \in RandomPairs(decision, args, files),
          randomQuestion \in RandomQuestions(decision, args) :
        \E block \in {TryBlock(decision, args, files, now, randomPair, randomQuestion)} :
        LET final == MainCatch(block.tried)
            record == [result EXCEPT !.action = block.action,
                                     !.observation = final.observation,
                                     !.reflection = final.reflection]
        IN  /\ result' = record
            /\ trace' = [calls |-> block.tried.calls, caught |-> block.tried.threw]
            /\ IF final.crashed
               THEN /\ stdout' = stdout
                    /\ exitCode' = 1
                    /\ pc' = "exited"
               ELSE /\ stdout' = Append(stdout, Output(args, record))
                    /\ exitCode' = exitCode
                    /\ pc' = "done"
    /\ UNCHANGED <<args, files, now, req, genPromise, decision>>

\* the event loop is empty: the process exits with code 0
Exit ==
    /\ pc = "done"
    /\ req.state \notin {"inflight", "destroyed"}
    /\ pc' = "exited"
    /\ exitCode' = 0
    /\ UNCHANGED <<args, files, now, req, genPromise, decision, result, stdout, trace>>

Next ==
    \/ MainStart
    \/ \E body \in BackendBodies : ResponseEnd(body)
    \/ \E message \in TransportErrors : RequestError(message)
    \/ RequestTimeout
    \/ ThinkSettle
    \/ MainAct
    \/ Exit

Spec == Init /\ [][Next]_vars

(***************************************************************************)
(* Properties of a whole invocation (Spec)                                 *)
(***************************************************************************)
\* the loop has run and the record has been written to stdout
Completed == pc \in {"done", "exited"} /\ args.prompt # ""

ErrorTyped(v) == "type" \in DOMAIN v /\ v.type = "error"

\* error-typed, or for the mentor_tips branch holding an error-typed tips result
ErrorTypedOrContains(v) == ErrorTyped(v) \/ ("tips" \in DOMAIN v /\ ErrorTyped(v.tips))

ErrorPrefixed(v) == IsStr(v) /\ StartsWith(v.str, "Error:")

KnownTools == {"engagement_pulse", "mentor_tips", "compose_nudge", "echo"}

ToolOf(action) == SplitOn(Substring(action, 4), ":")[1]

UnknownTool(action) == StartsWith(action, "USE:") /\ ToolOf(action) \notin KnownTools

\* C1: in every completed invocation an observation that is a string starting
\* with "Error:" comes with reflection "needs improvement", and every other
\* observation that is not an error comes with reflection "looks ok".
C1_ErrorPrefixIffNeedsImprovement ==
    Completed =>
        /\ ErrorPrefixed(result.observation) => result.reflection = "needs improvement"
        /\ (~ErrorPrefixed(result.observation) /\ ~ErrorTypedOrContains(result.observation))
              => result.reflection = "looks ok"

RouterFault == StartsWith(result.action, "RESPOND:Error:")

ChainAsked == Completed /\ StartsWith(result.action, "USE:mentor_tips") /\ args.compose

\* sample=.. dormant=.. balance=.. last_checkin_days=.. of a summary
SummaryLine(r) ==
    "sample=" \o ToString(r.sample) \o " dormant=" \o ToString(r.dormant)
        \o " balance=" \o r.balance \o " last_checkin_days=" \o ToString(r.last_checkin_days)

\* the calls are tips, then analytics in summary mode, then the composer
\* with the summary line and the first two hits
ChainCalls(calls) ==
    /\ Len(calls) = 3
    /\ calls[1].tool = "mentor_tips"
    /\ calls[2].tool = "engagement_pulse"
    /\ calls[2].result = EngagementPulseRun(files, now, "summary", 0)
    /\ calls[3].tool = "compose_nudge"
    /\ \E randomPair \in 0..1, randomQuestion \in 0..(Len(SuggestedQuestions) - 1) :
          calls[3] = Call("compose_nudge",
                          LET composed == ComposeNudgeCompose(files,
                                  IF calls[2].result.type = "summary"
                                  THEN SummaryLine(calls[2].result) ELSE NoEngagementData,
                                  FormatTips(Slice(calls[1].result.hits, 0, 2)),
                                  args.pairId, randomPair, randomQuestion)
                          IN  IF composed.threw THEN composed ELSE Return(Str(composed.value)))

\* observation {tips, nudge}, subject and body being what follows Subject: and
\* Body: in the composer's message
ChainObservation(calls) ==
    /\ DOMAIN result.observation = {"tips", "nudge"}
    /\ result.observation.tips = calls[1].result
    /\ DOMAIN result.observation.nudge = {"type", "subject", "body"}
    /\ StartsWith(calls[3].result.str, "To: ") =>
          \E i \in 1..Len(files.users) :
              calls[3].result.str = "To: " \o files.users[i].first_name
                                      \o "\nSubject: " \o result.observation.nudge.subject
                                      \o "\nBody: " \o result.observation.nudge.body

\* C20 as stated: whenever mentor_tips is decided with the chaining flag,
\* tips, summary analytics and the composer run in that order and the final
\* observation carries the tips result and the nudge {subject, body}.
C20_ChainAlwaysRuns ==
    ChainAsked => /\ ChainCalls(trace.calls)
                  /\ ~trace.caught
                  /\ ChainObservation(trace.calls)

\* C20: when mentor_tips is decided with the chaining flag and the retrieval
\* returns at least one hit, summary analytics and then the composer run,
\* the composer being given the summary line and the first two hits; the
\* final observation carries the tips result and the nudge {subject, body}
\* taken from the Subject: and Body: lines, or is the "Error: ..." string of
\* main's catch when the composer throws.  When the retrieval is an error or
\* has no hit, the tips result alone is the observation.
C20_ChainRunsOnHits ==
    ChainAsked =>
        LET calls == trace.calls
        IN  /\ Len(calls) >= 1 /\ calls[1].tool = "mentor_tips"
            /\ calls[1].result = MentorTipsRetrieve(files, args.prompt)
            /\ IF calls[1].result.type = "tips" /\ Len(calls[1].result.hits) > 0
               THEN /\ ChainCalls(calls)
                    /\ trace.caught = calls[3].threw
                    /\ ~trace.caught => ChainObservation(calls)
                    /\ trace.caught => result.observation = Str("Error: " \o calls[3].result.str)
               ELSE Len(calls) = 1 /\ result.observation = calls[1].result

C20_Witness ==
    /\ ChainAsked
    /\ Len(trace.calls) = 3
    /\ ~trace.caught
    /\ Len(result.observation.tips.hits) = 2
    /\ StartsWith(trace.calls[3].result.str, "To: ")
    /\ StartsWith(result.observation.nudge.subject, "Checking in on your ")
    /\ StartsWith(result.observation.nudge.body, "Hi ")

\* the reply is not a usable one: not JSON, an error object, or no text in it
FaultyBody(b) == b.json # "object" \/ b.error # "" \/ ~b.hasContent \/ Trim(b.content) = ""

BackendFault ==
    \/ args.provider = "openai" /\ ~args.apiKey
    \/ /\ req.handled # <<>>
       /\ \/ req.handled[1] \in {"error", "timeout"}
          \/ req.handled[1] = "end" /\ FaultyBody(req.body)

\* C5: think never throws or rejects, and after every backend fault (transport
\* error, timeout, malformed reply, empty reply, missing credential) the decision
\* it returns has an action starting with "RESPOND:Error:".
C5_BackendFaultBecomesRespondError ==
    pc = "acting" =>
        /\ ~decision.threw
        /\ BackendFault => StartsWith(decision.value.action, "RESPOND:Error:")

\* C6: with the deterministic backend the prompt "echo hello" always yields the
\* action "USE:echo" and the observation "Echo: hello".
C6_EchoHelloObservation ==
    (Completed /\ args.provider = "deterministic" /\ args.prompt = "echo hello") =>
        /\ result.action = "USE:echo"
        /\ result.observation = Str("Echo: hello")

Range(seq) == {seq[i] : i \in DOMAIN seq}

\* the data files a tool loads
LoadedBy(tool) ==
    CASE tool = "engagement_pulse" -> Range(PulseLoadOrder)
      [] tool = "mentor_tips" -> {"tips.json"}
      [] tool = "compose_nudge" -> Range(ComposeLoadOrder)

\* C7: a tool that loads a missing data file returns {type: "error", message,
\* hint}, and the fault is not thrown past the tool.
C7_DataFaultIsErrorResult ==
    \A i \in DOMAIN trace.calls :
        LoadedBy(trace.calls[i].tool) \cap files.missing # {} =>
            /\ ~trace.calls[i].threw
            /\ ErrorTyped(trace.calls[i].result)
            /\ {"message", "hint"} \subseteq DOMAIN trace.calls[i].result

\* the message of the exception that left the try block of main
CaughtMessage ==
    IF trace.calls # <<>> /\ trace.calls[Len(trace.calls)].threw
    THEN trace.calls[Len(trace.calls)].result.str
    ELSE decision.message

\* a callback of the process is ready or an event of its request is still to come:
\* the guards of the actions of Next
Runnable ==
    \/ pc = "start"
    \/ req.state \in {"inflight", "destroyed"}
    \/ pc = "thinking" /\ genPromise.state \in {"resolved", "rejected"}
    \/ pc = "acting"
    \/ pc = "done" /\ req.state \notin {"inflight", "destroyed"}

\* C8: an invocation with a prompt exits with code 0 after writing exactly one
\* JSON object, and never stops before it has exited; an exception caught by main
\* is reported as observation "Error: <message>" with reflection "needs
\* improvement".  An invocation without a prompt exits with code 1 and runs
\* nothing of the loop.
C8_ExitsZeroWithOneJsonObject ==
    /\ pc # "exited" => Runnable
    /\ pc = "done" => Len(stdout) = 1
    /\ (pc = "exited" /\ args.prompt # "") => exitCode = 0 /\ Len(stdout) = 1
    /\ (Completed /\ trace.caught) =>
          /\ result.observation = Str("Error: " \o CaughtMessage)
          /\ result.reflection = "needs improvement"
          /\ stdout[1] = Output(args, result)
    /\ (pc = "exited" /\ args.prompt = "") =>
          /\ exitCode = 1
          /\ stdout = <<>>
          /\ req.sent = 0 /\ decision = NoDecision /\ result = NoResult /\ trace = NoTrace

C8_Witness ==
    /\ pc = "exited"
    /\ exitCode = 0
    /\ trace.caught
    /\ result.observation = Str("Error: " \o Enoent("programmes.json"))
    /\ stdout = <<result>>

\* C21: an action token main does not recognise raises nothing: for a USE:
\* action naming an unknown tool the observation is the string
\* "Unknown tool: <name>", the reflection is "needs improvement", no tool is
\* run and nothing is caught; an action that is neither USE: nor RESPOND:
\* runs no tool and raises nothing either.
C21_UnknownToolIsObservation ==
    Completed /\ result.action # "" =>
        /\ UnknownTool(result.action) =>
              /\ result.observation = Str("Unknown tool: " \o ToolOf(result.action))
              /\ StartsWith(result.observation.str, "Unknown tool")
              /\ result.reflection = "needs improvement"
              /\ trace = NoTrace
              /\ stdout = <<Output(args, result)>>
        /\ (~StartsWith(result.action, "USE:") /\ ~StartsWith(result.action, "RESPOND:")) =>
              trace = NoTrace /\ result.observation = Str(result.action)

C21_Witness ==
    /\ pc = "done"
    /\ decision = Return([action |-> "USE:calendar", mode |-> decision.value.mode,
                          prompt |-> decision.value.prompt])
    /\ result.observation = Str("Unknown tool: calendar")
    /\ trace = NoTrace
    /\ Len(stdout) = 1

\* C22: with --json-only the one value written is exactly the observation,
\* whatever the observation is; without it the value written is the whole
\* {thought, action, observation, reflection} record.
C22_JsonOnlyPrintsObservation ==
    (Completed /\ Len(stdout) = 1) =>
        /\ args.jsonOnly => stdout[1] = result.observation
        /\ ~args.jsonOnly => stdout[1] = result
                               /\ DOMAIN result = {"thought", "action", "observation", "reflection"}

\* the responses the system instruction of the backends allows
AllowedAction(action) ==
    \/ action \in {"USE:engagement_pulse:summary", "USE:engagement_pulse:list",
                    "USE:mentor_tips", "USE:echo"}
    \/ StartsWith(action, "RESPOND:")

\* the mode a backend decision is to carry: the reply's :list or :summary, or the hint
ReplyMode(content, prompt) ==
    IF Includes(content, ":list") THEN "list"
    ELSE IF Includes(content, ":summary") THEN "summary"
    ELSE IF ContainsListWordAsWord(prompt) THEN "list" ELSE "summary"

\* C23: whatever a backend replies, the decision generate resolves with has
\* an action of the allowed vocabulary, the mode (the reply's :list or
\* :summary suffix, else the mode inferred from the prompt) and the original
\* prompt.
C23_BackendReplyCoerced ==
    genPromise.state = "resolved" =>
        /\ AllowedAction(genPromise.value.action)
        /\ genPromise.value.mode = ReplyMode(genPromise.value.action, args.prompt)
        /\ genPromise.value.prompt = Str(args.prompt)

\* what the handler of a request event settles the promise of generate with
EventOutcomes(event) ==
    CASE event = "end" -> {OnEnd(args.provider, req.body, args.prompt)}
      [] event = "error" -> {OnError(args.provider, m) : m \in TransportErrors}
      [] event = "timeout" -> {OnTimeout(args.provider)}

TimedOutFirst == req.handled # <<>> /\ req.handled[1] = "timeout"

\* C24: a backend call is one round trip.  However the end, error and
\* timeout events of the request interleave, the promise of generate is
\* settled once, by the first of them; no second request is sent; a timeout
\* destroys the request in flight, and think then returns a RESPOND:Error:
\* decision and the process exits with code 0.
C24_SingleRoundTripSettlesOnce ==
    /\ req.sent <= 1
    /\ req.sent = 1 <=> (UsesBackend(args) /\ pc # "start")
    /\ req.handled = <<>> => genPromise.state \in {"none", "pending"}
    /\ req.handled # <<>> => genPromise \in EventOutcomes(req.handled[1])
    /\ (\E i \in DOMAIN req.handled : req.handled[i] = "timeout")
          => req.state \in {"destroyed", "closed"}
    /\ (TimedOutFirst /\ pc \in {"acting", "done", "exited"}) =>
          /\ decision = Return(ActionOnly("RESPOND:Error: " \o ProviderName(args.provider)
                                              \o " request timed out"))
          /\ ~trace.caught
          /\ exitCode # 1

\* the timeout came first and the error of the destroyed request after it
C24_Witness ==
    /\ pc = "exited"
    /\ exitCode = 0
    /\ req.sent = 1
    /\ req.handled = <<"timeout", "error">>
    /\ result.observation = Str("Error: OpenAI request timed out")

ComposeAsked == Completed /\ StartsWith(result.action, "USE:compose_nudge")

\* C25: the compose_nudge branch makes exactly three tool calls one after
\* the other: analytics in summary mode, then a retrieval of tips for the
\* prompt, then the composition from the two results; each call has
\* returned (or thrown) before the next is made.
C25_ComposeBranchSequence ==
    ComposeAsked =>
        LET calls == trace.calls
        IN  /\ [i \in 1..Len(calls) |-> calls[i].tool]
                   = <<"engagement_pulse", "mentor_tips", "compose_nudge">>
            /\ ~calls[1].threw /\ ~calls[2].threw
            /\ calls[1].result = EngagementPulseRun(files, now, "summary", 0)
            /\ calls[2].result = MentorTipsRetrieve(files, args.prompt)
            /\ trace.caught = calls[3].threw
            /\ ~trace.caught => result.observation = calls[3].result

C25_Witness ==
    /\ ComposeAsked
    /\ Len(trace.calls) = 3
    /\ trace.calls[1].result.type = "summary"
    /\ trace.calls[2].result.type = "tips"
    /\ Len(trace.calls[2].result.hits) = 2
    /\ StartsWith(result.observation.str, "To: ")

\* a composing branch ran: the last of three calls is the composer's
ComposingRan ==
    Completed /\ Len(trace.calls) = 3 /\ trace.calls[3].tool = "compose_nudge"

\* the result of the call of a tool in this invocation
ResultOf(tool) ==
    trace.calls[CHOOSE i \in 1..Len(trace.calls) : trace.calls[i].tool = tool].result

\* C29: in both composing branches, when the summary analytics call returns
\* an error result, the composer is called with the fixed string
\* "sample=0 dormant=0 balance=balanced last_checkin_days=0" and composes;
\* the observation holds no error and the reflection is "looks ok".
C29_AnalyticsErrorIsSwallowed ==
    (ComposingRan /\ ErrorTyped(ResultOf("engagement_pulse"))) =>
        /\ \E randomPair \in 0..1, randomQuestion \in 0..(Len(SuggestedQuestions) - 1) :
              trace.calls[3] =
                  Call("compose_nudge",
                       LET tips == ResultOf("mentor_tips")
                           composed == ComposeNudgeCompose(files,
                               "sample=0 dormant=0 balance=balanced last_checkin_days=0",
                               IF tips.type = "tips" /\ Len(tips.hits) > 0
                               THEN FormatTips(tips.hits) ELSE NoTipsFound,
                               args.pairId, randomPair, randomQuestion)
                       IN  IF composed.threw THEN composed ELSE Return(Str(composed.value)))
        /\ ~trace.calls[3].threw /\ ~trace.caught
        /\ ~ErrorTyped(result.observation) /\ ~ErrorPrefixed(result.observation)
        /\ result.reflection = "looks ok"

\* the greatest number of whole days since a pair's latest check-in
GlobalMaxDays == MaxOf({WholeDaysSinceLatest(files, now, p) : p \in PairsWithCheckins(files)})

\* the text the composer returned
ComposedText == trace.calls[3].result.str

\* C30: the days figure of a composed nudge is the greatest
\* last_checkin_days over all pairs, as the summary reports it, not the
\* days of the pair composed for: whichever pair is selected, it is treated
\* as overdue exactly when that maximum exceeds its programme's cadence, and
\* the overdue body states that maximum.
C30_NudgeUsesGlobalMaxDays ==
    (ComposingRan /\ ResultOf("engagement_pulse").type = "summary"
                  /\ ~trace.calls[3].threw /\ StartsWith(ComposedText, "To: ")) =>
        /\ ResultOf("engagement_pulse").last_checkin_days = GlobalMaxDays
        /\ \A i \in 1..Len(files.pairings) :
              (HasAllRecords(files, files.pairings[i])
                  /\ StartsWith(ComposedText, MessageHead(files, files.pairings[i]))) =>
                 LET cadence == ProgrammesNamed(files, files.pairings[i].programme_id)[1].cadence_days
                 IN  /\ GlobalMaxDays > cadence => Includes(ComposedText, DaysPhrase(GlobalMaxDays))
                     /\ GlobalMaxDays <= cadence => ~Includes(ComposedText, "last check-in")

\* p001 checked in 2 days ago on a cadence of 7 days, and its nudge says 27 days
C30_Witness ==
    /\ ComposingRan
    /\ StartsWith(ComposedText, "To: Priya")
    /\ WholeDaysSinceLatest(files, now, "p001") = 2
    /\ GlobalMaxDays = 27
    /\ Includes(ComposedText, "it has been 27 days since your last check-in")

====
